---- MODULE Spec2Model ----
(***************************************************************************)
(* Model of the lifecycle / permission state machine of Project Mind       *)
(* (app/src/lifecycle/lifecycle_manager.py, class LifecycleManager).       *)
(*                                                                         *)
(* One LifecycleManager object is modelled.  Its fields are the variables  *)
(* below; every public method is one action.  datetime.now() is the        *)
(* variable `now`, advanced by the environment action Tick between calls.  *)
(* Fields that no method reads back (last_active_time, runtime_seconds,    *)
(* full_ai_mode_activated_time, is_charging, battery_percent) are only     *)
(* exported by get_lifecycle_status and are not part of the model.         *)
(*                                                                         *)
(* The second part models the Heart (app/src/memory/heart.py) with the     *)
(* file it persists to, the third the WorkingMemory                        *)
(* (app/src/memory/working_memory.py).  The three objects do not call each *)
(* other; each has its own specifications.                                 *)
(***************************************************************************)
EXTENDS Integers, Sequences, FiniteSets, TLC

VARIABLES
    current_stage,                \* self.current_stage (AILifecycleStage value)
    birth_time,                   \* self.birth_time, seconds on the model clock
    days_active,                  \* self.days_active
    interaction_count,            \* self.interaction_count
    permissions,                  \* self.permissions: PermissionType -> PermissionGrant
    milestones_reached,           \* self.milestones_reached: name -> timestamp or None
    full_ai_mode_enabled,         \* self.full_ai_mode_enabled
    background_monitoring_active, \* self.background_monitoring_active
    now,                          \* the reading datetime.now() gives, in seconds
    consent_trail,                \* per permission: the last consent-changing call made on it
    last,                         \* the call just made: method, arguments, return value
    heart,                        \* the Heart object of the process (memory/heart.py)
    disk,                         \* the file at Heart.storage_path
    heart_call,                   \* the Heart call just made: method, arguments, outcome
    wm,                           \* the WorkingMemory object (memory/working_memory.py)
    wm_call,                      \* the WorkingMemory call just made
    wm_now                        \* datetime.now() as WorkingMemory reads it, in half seconds

\* the fields of the LifecycleManager, its clock and its call record
life_vars == <<current_stage, birth_time, days_active, interaction_count, permissions,
               milestones_reached, full_ai_mode_enabled, background_monitoring_active,
               consent_trail, last>>

\* the Heart, its file and its call record
store_vars == <<heart, disk, heart_call>>

\* the WorkingMemory, its clock and its call record
cache_vars == <<wm, wm_call, wm_now>>

vars == <<life_vars, now, store_vars, cache_vars>>

----------------------------------------------------------------------------
(* Bounds of the model *)

\* permissions offered to the permission calls in SpecPerm
NumPerms == 5
\* permissions offered to the permission calls in Spec
NumLifePerms == 1
\* clock readings available in Spec
NumLifeInstants == 2
\* cap on interaction_count in Spec
MaxLifeCount == 6
\* clock readings available in SpecStage
NumStageInstants == 3
\* cap on interaction_count in SpecStage
MaxCount == 7
\* clock readings available in SpecInteraction
NumInstants == 4
\* cap on interaction_count in SpecInteraction
MaxCountLong == 502

----------------------------------------------------------------------------
(* Enumerations and constants of the program *)

BIRTH == "birth"
INITIALIZATION == "init"
EARLY_LEARNING == "early_learning"
GROWTH == "growth"
MATURE == "mature"
DORMANT == "dormant"
END_OF_LIFE == "end_of_life"

AILifecycleStage ==
    {BIRTH, INITIALIZATION, EARLY_LEARNING, GROWTH, MATURE, DORMANT, END_OF_LIFE}

MICROPHONE == "microphone"
CAMERA == "camera"
SENSORS == "sensors"
LOCATION == "location"
FULL_AI_MODE == "full_ai_mode"
BACKGROUND_MONITORING == "background_monitoring"
EMERGENCY_DETECTION == "emergency_detection"
CLOUD_SYNC == "cloud_sync"
APP_SCANNING == "app_scanning"
INTERNET_SEARCH == "internet_search"

PermissionType ==
    {MICROPHONE, CAMERA, SENSORS, LOCATION, FULL_AI_MODE, BACKGROUND_MONITORING,
     EMERGENCY_DETECTION, CLOUD_SYNC, APP_SCANNING, INTERNET_SEARCH}

\* The order in which callers ask for permissions: ProjectMind.enable_full_ai_mode
\* requests the first six in this order; the remaining four follow in enum order.
PermissionOrder ==
    <<FULL_AI_MODE, MICROPHONE, CAMERA, SENSORS, BACKGROUND_MONITORING,
      EMERGENCY_DETECTION, LOCATION, CLOUD_SYNC, APP_SCANNING, INTERNET_SEARCH>>

\* `required` of _check_full_ai_mode_available
required == {MICROPHONE, CAMERA, SENSORS, FULL_AI_MODE}

\* Names passed to _record_milestone
Milestones ==
    {"birth", "full_ai_mode_enabled", "full_ai_mode_available",
     "early_learning_started", "growth_stage_reached", "maturity_reached",
     "last_active", "end_of_life"}

\* Python's None (an absent timestamp, an absent dictionary key, a void return)
None == -1

SecondsPerDay == 86400
InitCountThreshold == 5
EarlyCountThreshold == 50
EarlyDaysThreshold == 1
GrowthCountThreshold == 500
GrowthDaysThreshold == 7

\* Clock readings the environment can produce, in seconds since construction:
\* the day boundaries the progression rules compare against, and their neighbours.
Instants == <<0, 604800, 86400, 86399, 604799, 691200, 43200, 172800>>

Min(a, b) == IF a < b THEN a ELSE b

PermInputs(n) == {PermissionOrder[i] : i \in 1..Min(n, Len(PermissionOrder))}

InstantInputs(n) == {Instants[i] : i \in 1..Min(n, Len(Instants))}

----------------------------------------------------------------------------
(* Helpers of LifecycleManager *)

\* PermissionGrant(permission, granted=False, explicit_consent=False)
PermissionGrant(g, c) ==
    [granted |-> g, explicit_consent |-> c, granted_at |-> None, revoked_at |-> None]

init_permissions == [p \in PermissionType |-> PermissionGrant(FALSE, FALSE)]

\* Faulty variant of record_milestone: the membership test is missing, so recording a
\* milestone again restamps it
record_milestone_overwrite(ledger, milestone, t) ==
    [ledger EXCEPT ![milestone] = t]

\* Faulty variant of record_milestone: nothing is recorded after the birth
record_milestone_birth_only(ledger, milestone, t) ==
    IF ledger[milestone] = None /\ milestone = "birth"
        THEN [ledger EXCEPT ![milestone] = t]
        ELSE ledger

\* _record_milestone: the ledger after recording `milestone` at time t
record_milestone(ledger, milestone, t) ==
    IF ledger[milestone] = None
        THEN [ledger EXCEPT ![milestone] = t]
        ELSE ledger

\* _check_full_ai_mode_available: the ledger after the check made at time t
check_full_ai_mode_available(perms, ledger, t) ==
    LET all_granted == \A p \in required : perms[p].granted
    IN  IF all_granted
            THEN record_milestone(ledger, "full_ai_mode_available", t)
            ELSE ledger

\* Faulty variant of check_stage_progression: the first rule compares with >=, so the
\* fifth interaction already leaves INITIALIZATION
check_stage_progression_inclusive(stage, count, birth, ledger, t) ==
    LET time_active == t - birth
        days == time_active \div SecondsPerDay
    IN  IF stage = INITIALIZATION /\ count >= InitCountThreshold
            THEN [days_active |-> days, current_stage |-> EARLY_LEARNING,
                  milestones_reached |->
                      record_milestone(ledger, "early_learning_started", t)]
        ELSE IF stage = EARLY_LEARNING
                /\ (count > EarlyCountThreshold \/ days >= EarlyDaysThreshold)
            THEN [days_active |-> days, current_stage |-> GROWTH,
                  milestones_reached |->
                      record_milestone(ledger, "growth_stage_reached", t)]
        ELSE IF stage = GROWTH
                /\ (count > GrowthCountThreshold \/ days >= GrowthDaysThreshold)
            THEN [days_active |-> days, current_stage |-> MATURE,
                  milestones_reached |->
                      record_milestone(ledger, "maturity_reached", t)]
        ELSE [days_active |-> days, current_stage |-> stage,
              milestones_reached |-> ledger]

\* Faulty variant of check_stage_progression: the three rules are separate ifs, so
\* one check takes every step whose condition holds
check_stage_progression_cascading(stage, count, birth, ledger, t) ==
    LET time_active == t - birth
        days == time_active \div SecondsPerDay
        first == stage = INITIALIZATION /\ count > InitCountThreshold
        stage1 == IF first THEN EARLY_LEARNING ELSE stage
        ledger1 == IF first THEN record_milestone(ledger, "early_learning_started", t)
                   ELSE ledger
        second == /\ stage1 = EARLY_LEARNING
                  /\ (count > EarlyCountThreshold \/ days >= EarlyDaysThreshold)
        stage2 == IF second THEN GROWTH ELSE stage1
        ledger2 == IF second THEN record_milestone(ledger1, "growth_stage_reached", t)
                   ELSE ledger1
        third == /\ stage2 = GROWTH
                 /\ (count > GrowthCountThreshold \/ days >= GrowthDaysThreshold)
    IN  [days_active |-> days,
         current_stage |-> IF third THEN MATURE ELSE stage2,
         milestones_reached |->
             IF third THEN record_milestone(ledger2, "maturity_reached", t) ELSE ledger2]

\* Faulty variant of check_stage_progression: the rules step to "the next stage" of a
\* cyclic list, so a MATURE controller that meets the last rule's condition
\* wraps around to INITIALIZATION
check_stage_progression_wrapping(stage, count, birth, ledger, t) ==
    LET time_active == t - birth
        days == time_active \div SecondsPerDay
    IN  IF stage = INITIALIZATION /\ count > InitCountThreshold
            THEN [days_active |-> days, current_stage |-> EARLY_LEARNING,
                  milestones_reached |->
                      record_milestone(ledger, "early_learning_started", t)]
        ELSE IF stage = EARLY_LEARNING
                /\ (count > EarlyCountThreshold \/ days >= EarlyDaysThreshold)
            THEN [days_active |-> days, current_stage |-> GROWTH,
                  milestones_reached |->
                      record_milestone(ledger, "growth_stage_reached", t)]
        ELSE IF stage = GROWTH
                /\ (count > GrowthCountThreshold \/ days >= GrowthDaysThreshold)
            THEN [days_active |-> days, current_stage |-> MATURE,
                  milestones_reached |->
                      record_milestone(ledger, "maturity_reached", t)]
        ELSE IF stage = MATURE
                /\ (count > GrowthCountThreshold \/ days >= GrowthDaysThreshold)
            THEN [days_active |-> days, current_stage |-> INITIALIZATION,
                  milestones_reached |-> ledger]
        ELSE [days_active |-> days, current_stage |-> stage,
              milestones_reached |-> ledger]

\* _check_stage_progression: days_active, current_stage and the ledger after the
\* check made at time t with the (already incremented) interaction count
check_stage_progression(stage, count, birth, ledger, t) ==
    LET time_active == t - birth
        days == time_active \div SecondsPerDay
    IN  IF stage = INITIALIZATION /\ count > InitCountThreshold
            THEN [days_active |-> days, current_stage |-> EARLY_LEARNING,
                  milestones_reached |->
                      record_milestone(ledger, "early_learning_started", t)]
        ELSE IF stage = EARLY_LEARNING
                /\ (count > EarlyCountThreshold \/ days >= EarlyDaysThreshold)
            THEN [days_active |-> days, current_stage |-> GROWTH,
                  milestones_reached |->
                      record_milestone(ledger, "growth_stage_reached", t)]
        ELSE IF stage = GROWTH
                /\ (count > GrowthCountThreshold \/ days >= GrowthDaysThreshold)
            THEN [days_active |-> days, current_stage |-> MATURE,
                  milestones_reached |->
                      record_milestone(ledger, "maturity_reached", t)]
        ELSE [days_active |-> days, current_stage |-> stage,
              milestones_reached |-> ledger]

\* The record of a call: the method, its arguments, its return value, and the
\* stage and Full AI Mode flag the object had when the call was made.
Call(op, perm, approved, ret) ==
    [op |-> op, permission |-> perm, user_approved |-> approved, ret |-> ret,
     stage |-> current_stage, mode |-> full_ai_mode_enabled]

----------------------------------------------------------------------------
(* The other two objects before they are constructed *)

\* Python's None where an object is expected (a profile, a dictionary)
Null == [null |-> TRUE]

\* no file at storage_path
Absent == [file |-> "absent"]

\* no Heart object yet
NoHeart ==
    [constructed |-> "no", memory_entries |-> <<>>, memory_counter |-> 0,
     personality_traits |-> <<>>, emotional_profile |-> Null,
     name_profile |-> Null, persona_profile |-> Null]

\* no WorkingMemory object yet
NoCache == [constructed |-> "no"]

StoreIdle ==
    /\ heart = NoHeart
    /\ disk = Absent
    /\ heart_call = [op |-> "none", raised |-> FALSE, stores |-> 0]

CacheIdle ==
    /\ wm = NoCache
    /\ wm_call = [op |-> "none", interactions |-> 0, lookups |-> 0]
    /\ wm_now = 0

----------------------------------------------------------------------------
(* State after LifecycleManager.__init__ *)

LifecycleInit ==
    /\ current_stage = BIRTH
    /\ birth_time = 0
    /\ days_active = 0
    /\ interaction_count = 0
    /\ permissions = init_permissions
    /\ milestones_reached = [m \in Milestones |-> None]
    /\ full_ai_mode_enabled = FALSE
    /\ background_monitoring_active = FALSE
    /\ now = 0
    /\ consent_trail = [p \in PermissionType |-> "none"]
    /\ last = [op |-> "__init__", permission |-> "None", user_approved |-> "None",
               ret |-> "None", stage |-> BIRTH, mode |-> FALSE]

Init == LifecycleInit /\ StoreIdle /\ CacheIdle

----------------------------------------------------------------------------
(* Methods of LifecycleManager *)

\* Faulty variant of request_grant: the approval sets granted but not explicit_consent
request_grant_without_consent(grant, user_approved, t) ==
    IF user_approved
        THEN [grant EXCEPT !.granted = TRUE, !.granted_at = t]
        ELSE grant

\* Faulty variant of request_grant: the user's answer is assigned to the grant, so a
\* declined request withdraws a grant that was there
request_grant_assigned(grant, user_approved, t) ==
    [grant EXCEPT !.granted = user_approved,
                  !.explicit_consent = user_approved \/ @,
                  !.granted_at = IF user_approved THEN t ELSE @]

\* the grant request_permission leaves for a request answered at time t
request_grant(grant, user_approved, t) ==
    IF user_approved
        THEN [grant EXCEPT !.granted = TRUE, !.explicit_consent = TRUE,
                           !.granted_at = t]
        ELSE grant

request_permission(permission, user_approved) ==
    /\ permissions' = [permissions EXCEPT
                          ![permission] = request_grant(@, user_approved, now)]
    /\ milestones_reached' =
         IF user_approved /\ permission = FULL_AI_MODE
             THEN check_full_ai_mode_available(permissions', milestones_reached, now)
             ELSE milestones_reached
    /\ consent_trail' =
         IF user_approved
             THEN [consent_trail EXCEPT ![permission] = "approved"]
             ELSE consent_trail
    /\ last' = Call("request_permission", permission,
                    IF user_approved THEN "True" ELSE "False",
                    IF user_approved THEN "True" ELSE "False")
    /\ UNCHANGED <<current_stage, birth_time, days_active, interaction_count,
                   full_ai_mode_enabled, background_monitoring_active, now>>
    /\ UNCHANGED <<store_vars, cache_vars>>

\* the grant revoke_permission leaves for a revocation made at time t
revoke_grant(grant, t) ==
    [grant EXCEPT !.granted = FALSE, !.revoked_at = t]

\* Faulty variant of revoke_mode: the revocation leaves the Full AI Mode flag alone
revoke_mode_kept(permission, enabled) == enabled

\* the Full AI Mode flag after revoking `permission`
revoke_mode(permission, enabled) ==
    IF permission = FULL_AI_MODE THEN FALSE ELSE enabled

revoke_permission(permission) ==
    /\ permissions' = [permissions EXCEPT ![permission] = revoke_grant(@, now)]
    /\ full_ai_mode_enabled' = revoke_mode(permission, full_ai_mode_enabled)
    /\ consent_trail' = [consent_trail EXCEPT ![permission] = "revoked"]
    /\ last' = Call("revoke_permission", permission, "None", "None")
    /\ UNCHANGED <<current_stage, birth_time, days_active, interaction_count,
                   milestones_reached, background_monitoring_active, now>>
    /\ UNCHANGED <<store_vars, cache_vars>>

\* Faulty variant of enable_allowed: the guard reads the time of the grant, which
\* a revocation does not clear
enable_allowed_once_granted(perms) == perms[FULL_AI_MODE].granted_at # None

\* Faulty variant of enable_allowed: the guard reads the consent flag, which a
\* revocation does not clear
enable_allowed_by_consent(perms) == perms[FULL_AI_MODE].explicit_consent

\* the guard of enable_full_ai_mode: may the mode be switched on?
enable_allowed(perms) == perms[FULL_AI_MODE].granted

enable_full_ai_mode ==
    /\ IF ~enable_allowed(permissions)
          THEN /\ UNCHANGED <<full_ai_mode_enabled, milestones_reached>>
               /\ last' = Call("enable_full_ai_mode", "None", "None", "False")
          ELSE /\ full_ai_mode_enabled' = TRUE
               /\ milestones_reached' =
                    record_milestone(milestones_reached, "full_ai_mode_enabled", now)
               /\ last' = Call("enable_full_ai_mode", "None", "None", "True")
    /\ UNCHANGED <<current_stage, birth_time, days_active, interaction_count,
                   permissions, background_monitoring_active, now, consent_trail>>
    /\ UNCHANGED <<store_vars, cache_vars>>

disable_full_ai_mode ==
    /\ full_ai_mode_enabled' = FALSE
    /\ last' = Call("disable_full_ai_mode", "None", "None", "None")
    /\ UNCHANGED <<current_stage, birth_time, days_active, interaction_count,
                   permissions, milestones_reached, background_monitoring_active,
                   now, consent_trail>>
    /\ UNCHANGED <<store_vars, cache_vars>>

on_birth ==
    /\ birth_time' = now
    /\ current_stage' = INITIALIZATION
    /\ milestones_reached' = record_milestone(milestones_reached, "birth", now)
    /\ last' = Call("on_birth", "None", "None", "None")
    /\ UNCHANGED <<days_active, interaction_count, permissions, full_ai_mode_enabled,
                   background_monitoring_active, now, consent_trail>>
    /\ UNCHANGED <<store_vars, cache_vars>>

\* on_interaction, with the unbounded counter capped at `cap`
on_interaction(cap) ==
    /\ interaction_count < cap
    /\ LET count == interaction_count + 1
           after == check_stage_progression(
                        current_stage, count, birth_time, milestones_reached, now)
       IN  /\ interaction_count' = count
           /\ days_active' = after.days_active
           /\ current_stage' = after.current_stage
           /\ milestones_reached' = after.milestones_reached
    /\ last' = Call("on_interaction", "None", "None", "None")
    /\ UNCHANGED <<birth_time, permissions, full_ai_mode_enabled,
                   background_monitoring_active, now, consent_trail>>
    /\ UNCHANGED <<store_vars, cache_vars>>

\* Faulty variant of phone_active_stage: every inactive stage wakes to GROWTH
phone_active_stage_inactive(stage) ==
    IF stage \in {DORMANT, END_OF_LIFE} THEN GROWTH ELSE stage

\* the stage on_phone_active leaves
phone_active_stage(stage) == IF stage = DORMANT THEN GROWTH ELSE stage

on_phone_active ==
    /\ current_stage' = phone_active_stage(current_stage)
    /\ last' = Call("on_phone_active", "None", "None", "None")
    /\ UNCHANGED <<birth_time, days_active, interaction_count, permissions,
                   milestones_reached, full_ai_mode_enabled,
                   background_monitoring_active, now, consent_trail>>
    /\ UNCHANGED <<store_vars, cache_vars>>

\* Faulty variant of phone_sleep_stage: Full AI Mode alone keeps the stage
phone_sleep_stage_mode_only(stage, mode, monitoring) ==
    IF mode THEN stage ELSE DORMANT

\* the stage on_phone_sleep leaves
phone_sleep_stage(stage, mode, monitoring) ==
    IF mode /\ monitoring THEN stage ELSE DORMANT

on_phone_sleep ==
    /\ current_stage' = phone_sleep_stage(
                            current_stage, full_ai_mode_enabled,
                            background_monitoring_active)
    /\ last' = Call("on_phone_sleep", "None", "None", "None")
    /\ UNCHANGED <<birth_time, days_active, interaction_count, permissions,
                   milestones_reached, full_ai_mode_enabled,
                   background_monitoring_active, now, consent_trail>>
    /\ UNCHANGED <<store_vars, cache_vars>>

on_phone_shutdown ==
    /\ milestones_reached' = record_milestone(milestones_reached, "last_active", now)
    /\ last' = Call("on_phone_shutdown", "None", "None", "None")
    /\ UNCHANGED <<current_stage, birth_time, days_active, interaction_count,
                   permissions, full_ai_mode_enabled, background_monitoring_active,
                   now, consent_trail>>
    /\ UNCHANGED <<store_vars, cache_vars>>

on_uninstall ==
    /\ current_stage' = END_OF_LIFE
    /\ milestones_reached' = record_milestone(milestones_reached, "end_of_life", now)
    /\ last' = Call("on_uninstall", "None", "None", "None")
    /\ UNCHANGED <<birth_time, days_active, interaction_count, permissions,
                   full_ai_mode_enabled, background_monitoring_active, now,
                   consent_trail>>
    /\ UNCHANGED <<store_vars, cache_vars>>

\* Time passes between two calls: datetime.now() moves to a later one of the
\* first n clock readings.
Tick(n) ==
    /\ \E t \in InstantInputs(n) : t > now /\ now' = t
    /\ last' = Call("tick", "None", "None", "None")
    /\ UNCHANGED <<current_stage, birth_time, days_active, interaction_count,
                   permissions, milestones_reached, full_ai_mode_enabled,
                   background_monitoring_active, consent_trail>>
    /\ UNCHANGED <<store_vars, cache_vars>>

----------------------------------------------------------------------------
(* Specifications *)

RequestPermission(n) ==
    \E p \in PermInputs(n), a \in BOOLEAN : request_permission(p, a)

RevokePermission(n) == \E p \in PermInputs(n) : revoke_permission(p)

\* The permission registry: the permission calls and the Full AI Mode switch
NextPerm ==
    \/ RequestPermission(NumPerms)
    \/ RevokePermission(NumPerms)
    \/ enable_full_ai_mode
    \/ disable_full_ai_mode

SpecPerm == Init /\ [][NextPerm]_vars

\* The lifecycle signals, with time passing between them
NextStage ==
    \/ on_birth
    \/ on_interaction(MaxCount)
    \/ on_phone_active
    \/ on_phone_sleep
    \/ on_phone_shutdown
    \/ on_uninstall
    \/ Tick(NumStageInstants)

SpecStage == Init /\ [][NextStage]_vars

\* Long runs of interactions: birth, interactions up to the count thresholds, time
NextInteraction ==
    \/ on_birth
    \/ on_interaction(MaxCountLong)
    \/ Tick(NumInstants)

SpecInteraction == Init /\ [][NextInteraction]_vars

\* The whole controller: every method, with time passing between calls
Next ==
    \/ on_birth
    \/ on_interaction(MaxLifeCount)
    \/ on_phone_active
    \/ on_phone_sleep
    \/ on_phone_shutdown
    \/ on_uninstall
    \/ RequestPermission(NumLifePerms)
    \/ RevokePermission(NumLifePerms)
    \/ enable_full_ai_mode
    \/ disable_full_ai_mode
    \/ Tick(NumLifeInstants)

Spec == Init /\ [][Next]_vars

----------------------------------------------------------------------------
(* Permission registry and Full AI Mode *)

\* C1: in every state reachable by permission calls and the Full AI Mode switch,
\* Full AI Mode is enabled only if microphone, camera, sensors and full_ai_mode
\* are all granted with explicit consent.
C1_ModeNeedsAllRequired ==
    full_ai_mode_enabled =>
        \A p \in required :
            permissions[p].granted /\ permissions[p].explicit_consent

\* C2: enable_full_ai_mode returns False and leaves the Full AI Mode flag and the
\* milestone ledger unchanged unless the last consent-changing call on
\* FULL_AI_MODE was an approved request (granted, and not revoked since).
C2_EnableRefusedWithoutGrant ==
    [][(last'.op = "enable_full_ai_mode" /\ consent_trail[FULL_AI_MODE] # "approved")
          => /\ last'.ret = "False"
             /\ full_ai_mode_enabled' = full_ai_mode_enabled
             /\ milestones_reached' = milestones_reached]_vars

\* enable_full_ai_mode was refused for a permission that had been approved and
\* then revoked
C2_Witness ==
    /\ last.op = "enable_full_ai_mode"
    /\ last.ret = "False"
    /\ consent_trail[FULL_AI_MODE] = "revoked"
    /\ permissions[FULL_AI_MODE].explicit_consent

\* C3: in every reachable state, every permission that is granted has
\* explicit_consent set.
C3_GrantedImpliesConsent ==
    \A p \in PermissionType :
        permissions[p].granted => permissions[p].explicit_consent

\* a permission that was granted, revoked and granted again
C3_Witness ==
    \E p \in PermissionType :
        /\ permissions[p].granted
        /\ permissions[p].revoked_at # None
        /\ last.op = "request_permission"
        /\ last.permission = p

\* C4: request_permission with user_approved = False returns False and changes no
\* grant, nor the Full AI Mode flag, the stage or the ledger; with
\* user_approved = True it returns True, sets granted and explicit_consent of the
\* requested permission and leaves every other grant as it was.
C4_RequestPermission ==
    [][last'.op = "request_permission" =>
          LET p == last'.permission
          IN  IF last'.user_approved = "False"
                  THEN /\ last'.ret = "False"
                       /\ permissions' = permissions
                       /\ full_ai_mode_enabled' = full_ai_mode_enabled
                       /\ current_stage' = current_stage
                       /\ milestones_reached' = milestones_reached
                  ELSE /\ last'.ret = "True"
                       /\ permissions'[p].granted
                       /\ permissions'[p].explicit_consent
                       /\ \A q \in PermissionType \ {p} :
                              permissions'[q] = permissions[q]]_vars

\* a declined request was made on a permission that is granted, and it still is
C4_Witness ==
    /\ last.op = "request_permission"
    /\ last.user_approved = "False"
    /\ last.ret = "False"
    /\ permissions[last.permission].granted

\* C5: after revoke_permission(p) the grant of p is not granted, the granted flag
\* of every other permission is unchanged, and if p is FULL_AI_MODE then Full AI
\* Mode is disabled in the same step.
C5_RevokePermission ==
    [][last'.op = "revoke_permission" =>
          LET p == last'.permission
          IN  /\ ~permissions'[p].granted
              /\ \A q \in PermissionType \ {p} :
                     permissions'[q].granted = permissions[q].granted
              /\ (p = FULL_AI_MODE => ~full_ai_mode_enabled')]_vars

\* FULL_AI_MODE was revoked while Full AI Mode was enabled, and the mode is off
C5_Witness ==
    /\ last.op = "revoke_permission"
    /\ last.permission = FULL_AI_MODE
    /\ last.mode
    /\ ~full_ai_mode_enabled
    /\ \E q \in PermissionType \ {FULL_AI_MODE} : permissions[q].granted

----------------------------------------------------------------------------
(* Lifecycle stages *)

\* The stages of the forward progression, in order
ActiveStages == {BIRTH, INITIALIZATION, EARLY_LEARNING, GROWTH, MATURE}

StageRank(stage) ==
    CASE stage = BIRTH -> 0
      [] stage = INITIALIZATION -> 1
      [] stage = EARLY_LEARNING -> 2
      [] stage = GROWTH -> 3
      [] stage = MATURE -> 4

\* The milestone whose presence in the ledger shows that a stage was entered
StageMilestone(stage) ==
    CASE stage = INITIALIZATION -> "birth"
      [] stage = EARLY_LEARNING -> "early_learning_started"
      [] stage = GROWTH -> "growth_stage_reached"
      [] stage = MATURE -> "maturity_reached"

\* C6: END_OF_LIFE is terminal: on_uninstall leaves the stage END_OF_LIFE, and
\* once the controller was uninstalled (the end_of_life milestone is in the
\* ledger) the stage is END_OF_LIFE whatever lifecycle signals follow.
C6_EndOfLifeTerminal ==
    /\ (last.op = "on_uninstall" => current_stage = END_OF_LIFE)
    /\ (milestones_reached["end_of_life"] # None => current_stage = END_OF_LIFE)

\* C7: an on_interaction call made in stage MATURE leaves the stage MATURE,
\* whatever the interaction count and the elapsed time.
C7_MatureStaysMature ==
    (last.op = "on_interaction" /\ last.stage = MATURE) => current_stage = MATURE

\* an interaction was made in stage MATURE
C7_Witness ==
    /\ last.op = "on_interaction"
    /\ last.stage = MATURE
    /\ current_stage = MATURE
    /\ milestones_reached["maturity_reached"] # None

\* C8: stage progression is forward-only without on_uninstall: no call other
\* than on_uninstall takes an active stage to a strictly earlier active stage,
\* and as long as the controller was not uninstalled, a stage that was entered
\* (its milestone is in the ledger) is never followed by an earlier active
\* stage, also not after a stay in DORMANT.
C8_ForwardOnly ==
    /\ (/\ last.op # "on_uninstall"
        /\ last.stage \in ActiveStages
        /\ current_stage \in ActiveStages)
           => StageRank(current_stage) >= StageRank(last.stage)
    /\ milestones_reached["end_of_life"] = None =>
           \A s \in ActiveStages \ {BIRTH} :
               (/\ milestones_reached[StageMilestone(s)] # None
                /\ current_stage \in ActiveStages)
                   => StageRank(current_stage) >= StageRank(s)

\* C9: on_interaction thresholds: from INITIALIZATION the stage becomes
\* EARLY_LEARNING exactly when the incremented count exceeds 5 (the 6th call
\* from count 0); from EARLY_LEARNING it becomes GROWTH exactly when the count
\* exceeds 50 or at least one day (86400 s) has elapsed since birth; from GROWTH
\* it becomes MATURE exactly when the count exceeds 500 or at least seven days
\* have elapsed; otherwise the stage is unchanged.
C9_Thresholds ==
    last.op = "on_interaction" =>
        LET elapsed == now - birth_time
        IN  /\ last.stage = INITIALIZATION =>
                   current_stage = IF interaction_count > 5
                                       THEN EARLY_LEARNING ELSE INITIALIZATION
            /\ last.stage = EARLY_LEARNING =>
                   current_stage = IF interaction_count > 50 \/ elapsed >= 86400
                                       THEN GROWTH ELSE EARLY_LEARNING
            /\ last.stage = GROWTH =>
                   current_stage = IF interaction_count > 500 \/ elapsed >= 604800
                                       THEN MATURE ELSE GROWTH

\* the 6th interaction since construction, made in INITIALIZATION within the
\* first day, has moved the stage to EARLY_LEARNING
C9_Witness ==
    /\ last.op = "on_interaction"
    /\ last.stage = INITIALIZATION
    /\ current_stage = EARLY_LEARNING
    /\ interaction_count = 6
    /\ now - birth_time < 86400

\* C10: the milestone ledger is write-once: no step removes a milestone that is
\* in the ledger or changes its timestamp, so recording it again changes nothing.
C10_LedgerWriteOnce ==
    [][\A m \in Milestones :
          milestones_reached[m] # None =>
              milestones_reached'[m] = milestones_reached[m]]_vars

\* on_birth was called again at a later time than the recorded birth milestone
C10_Witness ==
    /\ last.op = "on_birth"
    /\ milestones_reached["birth"] # None
    /\ milestones_reached["birth"] < now

----------------------------------------------------------------------------
(* Heart: the long-term memory and its document on disk *)

\* Floats are counted in hundredths: One is 1.0
One == 100

Max(a, b) == IF a > b THEN a ELSE b

\* Faulty variant of clamp: only the upper limit is applied
clamp_above(x) == Min(One, x)

\* min(1.0, max(0.0, x))
clamp(x) == Min(One, Max(0, x))

MemoryEntry(timestamp, category, content, importance_score, tags) ==
    [timestamp |-> timestamp, category |-> category, content |-> content,
     importance_score |-> importance_score, tags |-> tags, related_memories |-> <<>>]

PersonalityTrait(name, value) == [name |-> name, value |-> value, influences |-> <<>>]

\* Enum members are named by their member name; .value is the lower-case string
EmotionalStateValue ==
    [HAPPY |-> "happy", CURIOUS |-> "curious", CONCERNED |-> "concerned",
     EXCITED |-> "excited", CALM |-> "calm", FOCUSED |-> "focused",
     PLAYFUL |-> "playful", PROTECTIVE |-> "protective"]

\* EmotionalState(value): the member with that value
EmotionalState(value) == CHOOSE m \in DOMAIN EmotionalStateValue : EmotionalStateValue[m] = value

NamingStatusValue ==
    [UNNAMED |-> "unnamed", AWAITING_NAME |-> "awaiting_name", NAMED |-> "named",
     NAME_CHANGING |-> "name_changing"]

EmotionalProfile(trust_level, affinity, emotional_bond_strength, dominant_emotion, shared_experiences) ==
    [trust_level |-> trust_level, affinity |-> affinity,
     emotional_bond_strength |-> emotional_bond_strength,
     dominant_emotion |-> dominant_emotion, emotional_memory |-> <<>>,
     shared_experiences |-> shared_experiences]

\* The fields of NameProfile that naming changes; a missing name is "None", a
\* missing date is None
NameProfile(ai_name, user_name, naming_status, date_named, total_name_changes, emotional_attachment_to_name) ==
    [ai_name |-> ai_name, user_name |-> user_name, naming_status |-> naming_status,
     date_named |-> date_named, total_name_changes |-> total_name_changes,
     emotional_attachment_to_name |-> emotional_attachment_to_name]

\* NameProfile()
DefaultNameProfile == NameProfile("None", "None", "UNNAMED", None, 0, 0)

\* datetime.isoformat and datetime.fromisoformat
isoformat(t) == [iso |-> t]

fromisoformat(s) == s.iso

\* str(id) of a dictionary key, and int(id_str) back
str(i) == [str |-> i]

int(k) == k.str

\* MemoryEntry.to_dict with the timestamp as save writes it
to_dict(entry) ==
    [timestamp |-> isoformat(entry.timestamp), category |-> entry.category,
     content |-> entry.content, importance_score |-> entry.importance_score,
     tags |-> entry.tags, related_memories |-> entry.related_memories]

\* The dictionary that save() hands to json.dump (its own "timestamp" key is
\* never read back and is left out)
document(h) ==
    [memory_entries |->
        [k \in {str(i) : i \in DOMAIN h.memory_entries} |-> to_dict(h.memory_entries[int(k)])],
     personality_traits |->
        [n \in DOMAIN h.personality_traits |->
            [name |-> h.personality_traits[n].name,
             value |-> h.personality_traits[n].value,
             influences |-> h.personality_traits[n].influences]],
     emotional_profile |->
        IF h.emotional_profile = Null THEN Null
        ELSE [trust_level |-> h.emotional_profile.trust_level,
              affinity |-> h.emotional_profile.affinity,
              emotional_bond_strength |-> h.emotional_profile.emotional_bond_strength,
              dominant_emotion |-> EmotionalStateValue[h.emotional_profile.dominant_emotion],
              shared_experiences |-> h.emotional_profile.shared_experiences],
     name_profile |->
        IF h.name_profile = Null THEN Null
        ELSE [ai_name |-> h.name_profile.ai_name,
              user_name |-> h.name_profile.user_name,
              naming_status |-> NamingStatusValue[h.name_profile.naming_status],
              date_named |-> IF h.name_profile.date_named = None THEN Null
                             ELSE isoformat(h.name_profile.date_named),
              total_name_changes |-> h.name_profile.total_name_changes,
              emotional_attachment_to_name |-> h.name_profile.emotional_attachment_to_name],
     persona_profile |-> Null]

\* A file holding a JSON document, and a file json.load cannot parse (empty or
\* cut short)
Json(data) == [file |-> "json", data |-> data]

Unparseable == [file |-> "unparseable"]

\* save(): the document is built, the file is opened for writing (which empties
\* it) and the document is dumped. io is what the file system does: "ok",
\* "open_fails" (the file is left as it was) or "write_fails" (the file is left
\* cut short)
IoOutcomes == {"ok", "open_fails", "write_fails"}

save(h, d, io) ==
    CASE io = "ok" -> [raised |-> FALSE, disk |-> Json(document(h))]
      [] io = "open_fails" -> [raised |-> TRUE, disk |-> d]
      [] OTHER -> [raised |-> TRUE, disk |-> Unparseable]

\* dict.get(key, default)
get(d, key, default) == IF key \in DOMAIN d THEN d[key] ELSE default

\* The keys load() reads with [] and so must find
RequiredEntryFields == {"timestamp", "category", "content", "importance_score"}

RequiredTraitFields == {"name", "value"}

RequiredEmotionFields ==
    {"trust_level", "affinity", "emotional_bond_strength", "dominant_emotion",
     "shared_experiences"}

\* The base traits in the order _initialize_new_heart inserts them, which is the
\* order save() writes them and load() reads them
TraitOrder == <<"helpfulness", "curiosity", "empathy", "playfulness", "caution", "adaptability">>

TraitIndex(n) == CHOOSE i \in 1..Len(TraitOrder) : TraitOrder[i] = n

Maximum(S) == CHOOSE m \in S : \A x \in S : x <= m

\* Faulty variant of load_entries: the counter resumes at the number of entries
load_entries_counted(h, data) ==
    LET es == get(data, "memory_entries", <<>>)
        bad == {k \in DOMAIN es : ~(RequiredEntryFields \subseteq DOMAIN es[k])}
        read == {k \in DOMAIN es : \A b \in bad : int(k) < int(b)}
        ids == DOMAIN h.memory_entries \cup {int(k) : k \in read}
        entries == [i \in ids |->
                       IF str(i) \in read
                       THEN MemoryEntry(fromisoformat(es[str(i)].timestamp),
                                        es[str(i)].category, es[str(i)].content,
                                        es[str(i)].importance_score,
                                        get(es[str(i)], "tags", <<>>))
                       ELSE h.memory_entries[i]]
    IN  IF bad # {}
        THEN [raised |-> TRUE, heart |-> [h EXCEPT !.memory_entries = entries]]
        ELSE [raised |-> FALSE,
              heart |-> [h EXCEPT !.memory_entries = entries,
                                  !.memory_counter = Cardinality(ids)]]

\* The first loop of load(): entries are read in file order (ascending id) until
\* one lacks a required key
load_entries(h, data) ==
    LET es == get(data, "memory_entries", <<>>)
        bad == {k \in DOMAIN es : ~(RequiredEntryFields \subseteq DOMAIN es[k])}
        read == {k \in DOMAIN es : \A b \in bad : int(k) < int(b)}
        ids == DOMAIN h.memory_entries \cup {int(k) : k \in read}
        entries == [i \in ids |->
                       IF str(i) \in read
                       THEN MemoryEntry(fromisoformat(es[str(i)].timestamp),
                                        es[str(i)].category, es[str(i)].content,
                                        es[str(i)].importance_score,
                                        get(es[str(i)], "tags", <<>>))
                       ELSE h.memory_entries[i]]
    IN  IF bad # {}
        THEN [raised |-> TRUE, heart |-> [h EXCEPT !.memory_entries = entries]]
        ELSE [raised |-> FALSE,
              heart |-> [h EXCEPT !.memory_entries = entries,
                                  !.memory_counter = IF ids = {} THEN 0
                                                     ELSE Maximum(ids) + 1]]

\* The second loop of load(): traits are read in file order until one lacks a
\* required key
load_traits(h, data) ==
    LET ts == get(data, "personality_traits", <<>>)
        bad == {n \in DOMAIN ts : ~(RequiredTraitFields \subseteq DOMAIN ts[n])}
        read == {n \in DOMAIN ts : \A b \in bad : TraitIndex(n) < TraitIndex(b)}
        names == DOMAIN h.personality_traits \cup read
        traits == [n \in names |->
                      IF n \in read
                      THEN [name |-> ts[n].name, value |-> ts[n].value,
                            influences |-> get(ts[n], "influences", <<>>)]
                      ELSE h.personality_traits[n]]
    IN  [raised |-> bad # {}, heart |-> [h EXCEPT !.personality_traits = traits]]

\* Truth value of a dictionary or None in an if: None and {} are false
truthy(x) == x # Null /\ DOMAIN x # {}

\* The emotional profile, the name profile and the persona profile of load().
\* A section is read only if it is truthy.
\* naming_status and date_named are not passed to NameProfile and take its
\* defaults. No document of the model holds a persona profile.
load_profiles(h, data) ==
    LET ep == get(data, "emotional_profile", Null)
        np == get(data, "name_profile", Null)
        ep_bad == /\ truthy(ep)
                  /\ \/ ~(RequiredEmotionFields \subseteq DOMAIN ep)
                     \/ \A m \in DOMAIN EmotionalStateValue :
                            EmotionalStateValue[m] # ep.dominant_emotion
        h1 == IF ~truthy(ep) \/ ep_bad THEN h
              ELSE [h EXCEPT !.emotional_profile =
                       EmotionalProfile(ep.trust_level, ep.affinity,
                                        ep.emotional_bond_strength,
                                        EmotionalState(ep.dominant_emotion),
                                        ep.shared_experiences)]
        h2 == [h1 EXCEPT !.name_profile =
                  IF ~truthy(np) THEN DefaultNameProfile
                  ELSE NameProfile(get(np, "ai_name", "None"), get(np, "user_name", "None"),
                                   "UNNAMED", None, get(np, "total_name_changes", 0),
                                   get(np, "emotional_attachment_to_name", 0))]
    IN  IF ep_bad THEN [raised |-> TRUE, heart |-> h1]
        ELSE [raised |-> FALSE, heart |-> h2]

\* load(): an exception leaves the object as far as it had been filled
load(h, d) ==
    IF d = Absent THEN [raised |-> FALSE, heart |-> h]
    ELSE IF d = Unparseable THEN [raised |-> TRUE, heart |-> h]
    ELSE LET r1 == load_entries(h, d.data)
             r2 == load_traits(r1.heart, d.data)
             r3 == load_profiles(r2.heart, d.data)
         IN  IF r1.raised THEN r1 ELSE IF r2.raised THEN r2 ELSE r3

\* The fields of a Heart as __init__ sets them before _load_or_initialize
EmptyHeart == [NoHeart EXCEPT !.constructed = "yes"]

\* The object of _initialize_new_heart before its save()
NewHeart ==
    [EmptyHeart EXCEPT
        !.emotional_profile = EmotionalProfile(50, 50, 0, "CURIOUS", 0),
        !.personality_traits =
            [helpfulness |-> PersonalityTrait("helpfulness", 90),
             curiosity |-> PersonalityTrait("curiosity", 80),
             empathy |-> PersonalityTrait("empathy", 70),
             playfulness |-> PersonalityTrait("playfulness", 60),
             caution |-> PersonalityTrait("caution", 50),
             adaptability |-> PersonalityTrait("adaptability", 80)],
        !.name_profile = DefaultNameProfile]

\* Heart(storage_path): _load_or_initialize loads an existing file, else seeds
\* the defaults and saves them. An exception leaves the caller without an object.
Failed == [NoHeart EXCEPT !.constructed = "failed"]

construct(d, io) ==
    IF d # Absent
    THEN LET r == load(EmptyHeart, d)
         IN  [raised |-> r.raised, heart |-> IF r.raised THEN Failed ELSE r.heart,
              disk |-> d]
    ELSE LET w == save(NewHeart, d, io)
         IN  [raised |-> w.raised, heart |-> IF w.raised THEN Failed ELSE NewHeart,
              disk |-> w.disk]

----------------------------------------------------------------------------
(* Operations of Heart *)

SevenDays == 604800

CompressThreshold == 10

HeartCall(op, raised, stores) == [op |-> op, raised |-> raised, stores |-> stores]

\* Lines 73-83 of store_memory: the entry is put under the counter's value and
\* the counter is advanced. Absent tags arrive as the empty list (tags or [])
stored(h, t, category, content, importance, tags) ==
    LET id == h.memory_counter
        entry == MemoryEntry(t, category, content, clamp(importance), tags)
    IN  [h EXCEPT !.memory_entries =
                      [i \in DOMAIN h.memory_entries \cup {id} |->
                          IF i = id THEN entry ELSE h.memory_entries[i]],
                  !.memory_counter = id + 1]

\* store_memory as a whole: the entry is stored, then save() runs; if save()
\* raises, the exception leaves store_memory and no id is returned
store(h, d, t, category, content, importance, tags, io) ==
    LET h1 == stored(h, t, category, content, importance, tags)
        w == save(h1, d, io)
    IN  [raised |-> w.raised, heart |-> h1, disk |-> w.disk,
         ret |-> IF w.raised THEN None ELSE h.memory_counter]

\* Heart(storage_path) at the start of a process
heart_init(io) ==
    LET r == construct(disk, io)
    IN  /\ heart' = r.heart
        /\ disk' = r.disk
        /\ heart_call' = HeartCall("__init__", r.raised, heart_call.stores)
        /\ UNCHANGED <<life_vars, now, cache_vars>>

store_memory(category, content, importance, tags, io, cap) ==
    /\ heart.constructed = "yes"
    /\ heart_call.stores < cap
    /\ LET r == store(heart, disk, now, category, content, importance, tags, io)
       IN  /\ heart' = r.heart
           /\ disk' = r.disk
           /\ heart_call' = [op |-> "store_memory", raised |-> r.raised,
                             stores |-> heart_call.stores + 1, ret |-> r.ret,
                             importance |-> importance]
    /\ UNCHANGED <<life_vars, now, cache_vars>>

\* Faulty variant of averaged: the trait takes the proposed value
averaged_assigned(h, trait_name, new_value) ==
    [h EXCEPT !.personality_traits[trait_name].value = clamp(new_value)]

\* update_personality_trait: the trait moves half way to new_value; only a call
\* with a reason goes on to store_memory and so to save(). A missing reason is "".
\* Only inputs whose mean is a whole number of hundredths are taken.
averaged(h, trait_name, new_value) ==
    [h EXCEPT !.personality_traits[trait_name].value = clamp((@ + new_value) \div 2)]

update_personality_trait(trait_name, new_value, reason, io, cap) ==
    /\ heart.constructed = "yes"
    /\ heart_call.stores < cap
    /\ IF trait_name \in DOMAIN heart.personality_traits
       THEN /\ (heart.personality_traits[trait_name].value + new_value) % 2 = 0
            /\ LET h1 == averaged(heart, trait_name, new_value)
                   r == store(h1, disk, now, "personality_update",
                              "Trait '" \o trait_name \o "' adjusted. Reason: " \o reason,
                              70, <<>>, io)
               IN  IF reason # ""
                   THEN /\ heart' = r.heart
                        /\ disk' = r.disk
                        /\ heart_call' = [op |-> "update_personality_trait",
                                          raised |-> r.raised,
                                          stores |-> heart_call.stores + 1,
                                          reason |-> reason,
                                          trait_name |-> trait_name,
                                          new_value |-> new_value]
                   ELSE /\ heart' = h1
                        /\ disk' = disk
                        /\ heart_call' = [op |-> "update_personality_trait",
                                          raised |-> FALSE,
                                          stores |-> heart_call.stores,
                                          reason |-> reason,
                                          trait_name |-> trait_name,
                                          new_value |-> new_value]
       ELSE /\ heart_call' = [op |-> "update_personality_trait", raised |-> FALSE,
                              stores |-> heart_call.stores, reason |-> reason,
                              trait_name |-> trait_name, new_value |-> new_value]
            /\ UNCHANGED <<heart, disk>>
    /\ UNCHANGED <<life_vars, now, cache_vars>>

\* str.upper() on the emotion names that are passed as strings
upper == [happy |-> "HAPPY", calm |-> "CALM", curious |-> "CURIOUS"]

\* update_emotional_profile(**kwargs): every keyword that names an attribute of
\* the profile is set, a dominant_emotion given as a string is looked up by its
\* upper-case member name; then save()
with_emotions(profile, kwargs) ==
    [key \in DOMAIN profile |->
        IF key \in DOMAIN kwargs
        THEN IF key = "dominant_emotion" THEN upper[kwargs[key]] ELSE kwargs[key]
        ELSE profile[key]]

update_emotional_profile(kwargs, io) ==
    /\ heart.constructed = "yes"
    /\ IF heart.emotional_profile # Null
       THEN LET h1 == [heart EXCEPT !.emotional_profile = with_emotions(@, kwargs)]
                w == save(h1, disk, io)
            IN  /\ heart' = h1
                /\ disk' = w.disk
                /\ heart_call' = HeartCall("update_emotional_profile", w.raised,
                                           heart_call.stores)
       ELSE /\ heart_call' = HeartCall("update_emotional_profile", FALSE,
                                       heart_call.stores)
            /\ UNCHANGED <<heart, disk>>
    /\ UNCHANGED <<life_vars, now, cache_vars>>

\* Faulty variant of summarizes: ten old entries are enough
summarizes_at_threshold(old_memories) == Cardinality(old_memories) >= CompressThreshold

\* if len(old_memories) > 10
summarizes(old_memories) == Cardinality(old_memories) > CompressThreshold

\* Faulty variant of compress_category: the summarised entries are removed
compress_category_destructive(r, t, category, io) ==
    LET es == r.heart.memory_entries
        old_memories == {i \in DOMAIN es : /\ es[i].category = category
                                           /\ es[i].timestamp < t - SevenDays}
        kept == [r EXCEPT !.heart.memory_entries = [i \in DOMAIN es \ old_memories |-> es[i]]]
    IN  IF r.raised \/ ~summarizes(old_memories) THEN r
        ELSE store(kept.heart, r.disk, t, category \o "_summary",
                   "Summary of " \o ToString(Cardinality(old_memories)) \o " "
                       \o category \o " entries",
                   30, <<>>, io)

\* One round of the loop of compress_memory: more than ten entries of the
\* category older than seven days add one summary entry through store_memory
compress_category(r, t, category, io) ==
    LET es == r.heart.memory_entries
        old_memories == {i \in DOMAIN es : /\ es[i].category = category
                                           /\ es[i].timestamp < t - SevenDays}
    IN  IF r.raised \/ ~summarizes(old_memories) THEN r
        ELSE store(r.heart, r.disk, t, category \o "_summary",
                   "Summary of " \o ToString(Cardinality(old_memories)) \o " "
                       \o category \o " entries",
                   30, <<>>, io)

compress(h, d, t, io) ==
    compress_category(
        compress_category(
            compress_category([raised |-> FALSE, heart |-> h, disk |-> d, ret |-> None],
                              t, "conversation", io),
            t, "learning", io),
        t, "experience", io)

compress_memory(io, cap) ==
    /\ heart.constructed = "yes"
    /\ heart_call.stores < cap
    /\ LET r == compress(heart, disk, now, io)
       IN  /\ heart' = r.heart
           /\ disk' = r.disk
           /\ heart_call' = HeartCall("compress_memory", r.raised,
                                      heart_call.stores + r.heart.memory_counter
                                          - heart.memory_counter)
    /\ UNCHANGED <<life_vars, now, cache_vars>>

\* save() called on its own
heart_save(io) ==
    /\ heart.constructed = "yes"
    /\ LET w == save(heart, disk, io)
       IN  /\ disk' = w.disk
           /\ heart_call' = HeartCall("save", w.raised, heart_call.stores)
    /\ UNCHANGED <<heart, life_vars, now, cache_vars>>

\* load() called on the live object
heart_load ==
    /\ heart.constructed = "yes"
    /\ LET r == load(heart, disk)
       IN  /\ heart' = r.heart
           /\ heart_call' = HeartCall("load", r.raised, heart_call.stores)
    /\ UNCHANGED <<disk, life_vars, now, cache_vars>>

\* The naming engine's profile after set_ai_name(name) on a new engine
named_profile(name, t) == NameProfile(name, "None", "NAMED", t, 1, 10)

\* _save_naming_to_heart: the engine's profile becomes the heart's, save(), then
\* the naming event is stored
save_naming_to_heart(name, io, cap) ==
    /\ heart.constructed = "yes"
    /\ heart_call.stores < cap
    /\ LET h1 == [heart EXCEPT !.name_profile = named_profile(name, now)]
           w == save(h1, disk, io)
           r == store(h1, w.disk, now, "naming_event",
                      "Names established: AI='" \o name \o "', User='None'", 90,
                      <<"naming", "personalization", "milestone">>, io)
       IN  IF w.raised
           THEN /\ heart' = h1
                /\ disk' = w.disk
                /\ heart_call' = HeartCall("_save_naming_to_heart", TRUE, heart_call.stores)
           ELSE /\ heart' = r.heart
                /\ disk' = r.disk
                /\ heart_call' = HeartCall("_save_naming_to_heart", r.raised,
                                           heart_call.stores + 1)
    /\ UNCHANGED <<life_vars, now, cache_vars>>

\* list(self.memory_entries.values()): the ids in insertion order, which is
\* ascending since every insertion uses a larger key
RECURSIVE values(_)
values(ids) ==
    IF ids = {} THEN <<>>
    ELSE LET m == Maximum(ids) IN Append(values(ids \ {m}), m)

\* [x for x in seq if keep[x]]
RECURSIVE comprehension(_, _)
comprehension(seq, keep) ==
    IF seq = <<>> THEN <<>>
    ELSE LET rest == comprehension(SubSeq(seq, 1, Len(seq) - 1), keep)
             x == seq[Len(seq)]
         IN  IF x \in keep THEN Append(rest, x) ELSE rest

\* Faulty variant of key_less: the timestamp is left out of the key
key_less_importance(a, b) == a.importance_score < b.importance_score

\* Order of the sort key (importance_score, timestamp)
key_less(a, b) ==
    \/ a.importance_score < b.importance_score
    \/ a.importance_score = b.importance_score /\ a.timestamp < b.timestamp

\* list.sort(key=..., reverse=True): descending by key, entries of equal key
\* keep the order they had
RECURSIVE sort_reverse(_, _)
sort_reverse(es, seq) ==
    IF seq = <<>> THEN <<>>
    ELSE LET done == sort_reverse(es, SubSeq(seq, 1, Len(seq) - 1))
             x == seq[Len(seq)]
             ahead == {i \in 1..Len(done) : ~key_less(es[done[i]], es[x])}
             n == IF \E i \in 1..Len(done) : i \notin ahead
                  THEN (CHOOSE i \in 1..Len(done) :
                            i \notin ahead /\ \A j \in 1..(i - 1) : j \in ahead) - 1
                  ELSE Len(done)
         IN  SubSeq(done, 1, n) \o <<x>> \o SubSeq(done, n + 1, Len(done))

\* seq[:limit]
slice(seq, limit) ==
    IF limit >= 0 THEN SubSeq(seq, 1, Min(limit, Len(seq)))
    ELSE SubSeq(seq, 1, Max(0, Len(seq) + limit))

\* retrieve_memories: the entries are named by their ids. No category is "" and
\* no tags is the empty list, both false in the ifs
retrieved(h, category, tags, limit) ==
    LET es == h.memory_entries
        all == values(DOMAIN es)
        by_category == IF category # ""
                       THEN comprehension(all, {i \in DOMAIN es : es[i].category = category})
                       ELSE all
        by_tags == IF tags # <<>>
                   THEN comprehension(by_category,
                            {i \in DOMAIN es :
                                \E k \in 1..Len(tags), l \in 1..Len(es[i].tags) :
                                    tags[k] = es[i].tags[l]})
                   ELSE by_category
    IN  slice(sort_reverse(es, by_tags), limit)

retrieve_memories(category, tags, limit) ==
    /\ heart.constructed = "yes"
    /\ heart_call' = [op |-> "retrieve_memories", raised |-> FALSE,
                      stores |-> heart_call.stores, category |-> category,
                      tags |-> tags, limit |-> limit,
                      ret |-> retrieved(heart, category, tags, limit)]
    /\ UNCHANGED <<heart, disk, life_vars, now, cache_vars>>

\* Time passes between two calls
Pass(n) ==
    /\ \E t \in InstantInputs(n) : t > now /\ now' = t
    /\ UNCHANGED <<life_vars, store_vars, cache_vars>>

----------------------------------------------------------------------------
(* The documents a process may find at its start, and the specification of the
   store *)

MaxStores == 2

NumHeartInstants == 2

\* Entries written by an earlier run of the program
SeedEntries(ids, t, category) ==
    [i \in ids |-> MemoryEntry(t, category, "hello", 50, <<>>)]

WithEntries(es) == [NewHeart EXCEPT !.memory_entries = es]

drop(d, key) == [k \in DOMAIN d \ {key} |-> d[k]]

\* Two entries of the day before
SeedDoc == Json(document(WithEntries(SeedEntries({0, 1}, 0 - SecondsPerDay, "conversation"))))

\* Eleven conversation entries that are more than seven days old at the second
\* instant
OldDoc == Json(document(WithEntries(SeedEntries(0..CompressThreshold, 0 - 1, "conversation"))))

\* Eleven conversation entries, ten learning entries and eleven experience
\* entries that are more than seven days old at the second instant, and one
\* learning entry that is exactly seven days old then
MixedDoc ==
    Json(document(WithEntries(
        SeedEntries(0..CompressThreshold, 0 - 1, "conversation")
            @@ SeedEntries(11..20, 0 - 1, "learning")
            @@ SeedEntries({21}, 0, "learning")
            @@ SeedEntries(22..32, 0 - 1, "experience"))))

\* A document whose ids are not contiguous
GapDoc == Json(document(WithEntries(SeedEntries({5, 9}, 0 - SecondsPerDay, "learning"))))

\* Documents that parse but lack a required key
MalformedEntryDoc ==
    LET doc == document(WithEntries(SeedEntries({0, 1}, 0 - SecondsPerDay, "conversation")))
    IN  Json([doc EXCEPT !.memory_entries[str(1)] = drop(@, "importance_score")])

MalformedTraitDoc ==
    LET doc == document(WithEntries(SeedEntries({0, 1}, 0 - SecondsPerDay, "conversation")))
    IN  Json([doc EXCEPT !.personality_traits["empathy"] = drop(@, "value")])

\* A document whose emotional profile section is there but has none of its keys
EmptyEmotionDoc ==
    LET doc == document(WithEntries(SeedEntries({0, 1}, 0 - SecondsPerDay, "conversation")))
    IN  Json([doc EXCEPT !.emotional_profile = <<>>])

InitDocs ==
    {Absent, Unparseable, SeedDoc, OldDoc, GapDoc, MalformedEntryDoc, MalformedTraitDoc,
     EmptyEmotionDoc}

HeartIdle ==
    /\ LifecycleInit
    /\ CacheIdle
    /\ heart = NoHeart
    /\ heart_call = [op |-> "none", raised |-> FALSE, stores |-> 0]

HeartInit == \E io \in IoOutcomes : heart_init(io)

StoreMemory == \E io \in IoOutcomes : store_memory("conversation", "hello", 50, <<>>, io, MaxStores)

UpdateEmotionalProfile ==
    \E kwargs \in {[dominant_emotion |-> "happy"], [mood |-> "calm"]}, io \in IoOutcomes :
        update_emotional_profile(kwargs, io)

HeartSave == \E io \in IoOutcomes : heart_save(io)

\* The mutating operations of the store, failing writes and restarts
StoreInit == HeartIdle /\ disk \in {Absent, SeedDoc, OldDoc, MixedDoc}

NextStore ==
    \/ HeartInit
    \/ StoreMemory
    \/ \E trait_name \in {"helpfulness", "patience"}, reason \in {"", "feedback"},
          io \in IoOutcomes :
           update_personality_trait(trait_name, One, reason, io, MaxStores)
    \/ UpdateEmotionalProfile
    \/ \E io \in IoOutcomes : compress_memory(io, MaxStores)
    \/ HeartSave
    \/ Pass(NumHeartInstants)

SpecStore == StoreInit /\ [][NextStore]_vars

\* Starting from every kind of document, loading and storing
LoadInit == HeartIdle /\ disk \in InitDocs

NextLoad ==
    \/ HeartInit
    \/ heart_load
    \/ StoreMemory
    \/ HeartSave
    \/ Pass(NumHeartInstants)

SpecLoad == LoadInit /\ [][NextLoad]_vars

\* Naming and restarts
NamingInit == HeartIdle /\ disk \in {Absent, SeedDoc}

NextNaming ==
    \/ HeartInit
    \/ \E io \in IoOutcomes : save_naming_to_heart("Nova", io, MaxStores)
    \/ UpdateEmotionalProfile
    \/ HeartSave
    \/ Pass(NumHeartInstants)

SpecNaming == NamingInit /\ [][NextNaming]_vars

\* Two threads that share one Heart. Heart takes no lock, so a thread may be
\* switched out between any two statements of store_memory and save. Each
\* thread's position and local variables are kept in heart_call.threads.
Threads == {"t1", "t2"}

MaxThreadCalls == 2

ThreadsInit ==
    /\ LifecycleInit
    /\ CacheIdle
    /\ heart = NewHeart
    /\ disk = Json(document(NewHeart))
    /\ heart_call = [op |-> "threads", raised |-> FALSE, stores |-> 0,
                     threads |-> [t \in Threads |->
                                    [pc |-> "idle", calls |-> 0, entry_id |-> None,
                                     counter |-> None, data |-> Null]]]

\* One statement of store_memory(category, content) run by thread t; the content
\* names the thread and its call. A dump that runs while the other thread has
\* the file open for writing leaves either its own document or a mix of the two.
store_memory_step(t, cap) ==
    LET th == heart_call.threads[t]
        others_writing == \E o \in Threads \ {t} : heart_call.threads[o].pc = "dump"
        goto(pc) == [heart_call EXCEPT !.threads[t].pc = pc]
    IN  /\ \/ \* lines 73-82: entry_id = self.memory_counter; memory_entries[entry_id] = entry
              /\ th.pc = "idle" /\ th.calls < cap
              /\ heart' = [heart EXCEPT !.memory_entries =
                              [i \in DOMAIN heart.memory_entries \cup {heart.memory_counter} |->
                                  IF i = heart.memory_counter
                                  THEN MemoryEntry(now, "conversation",
                                                   t \o "." \o ToString(th.calls + 1), clamp(50), <<>>)
                                  ELSE heart.memory_entries[i]]]
              /\ heart_call' = [heart_call EXCEPT !.threads[t].pc = "read_counter",
                                                  !.threads[t].calls = @ + 1,
                                                  !.threads[t].entry_id = heart.memory_counter]
              /\ disk' = disk
           \/ \* line 83, first half: the value of self.memory_counter is read
              /\ th.pc = "read_counter"
              /\ heart_call' = [heart_call EXCEPT !.threads[t].pc = "write_counter",
                                                  !.threads[t].counter = heart.memory_counter]
              /\ UNCHANGED <<heart, disk>>
           \/ \* line 83, second half: the value plus one is written back
              /\ th.pc = "write_counter"
              /\ heart' = [heart EXCEPT !.memory_counter = th.counter + 1]
              /\ heart_call' = goto("build")
              /\ disk' = disk
           \/ \* lines 200-236: save() builds its dictionary
              /\ th.pc = "build"
              /\ heart_call' = [heart_call EXCEPT !.threads[t].pc = "open",
                                                  !.threads[t].data = document(heart)]
              /\ UNCHANGED <<heart, disk>>
           \/ \* line 238: open(path, 'w') empties the file
              /\ th.pc = "open"
              /\ disk' = Unparseable
              /\ heart_call' = goto("dump")
              /\ heart' = heart
           \/ \* line 239: json.dump and the close of the file
              /\ th.pc = "dump"
              /\ disk' \in IF others_writing THEN {Json(th.data), Unparseable}
                           ELSE {Json(th.data)}
              /\ heart_call' = goto("return")
              /\ heart' = heart
           \/ \* line 86: return entry_id
              /\ th.pc = "return"
              /\ heart_call' = [heart_call EXCEPT !.threads[t].pc = "idle",
                                                  !.threads[t].counter = None,
                                                  !.threads[t].data = Null]
              /\ UNCHANGED <<heart, disk>>
        /\ UNCHANGED <<life_vars, now, cache_vars>>

NextThreads == \E t \in Threads : store_memory_step(t, MaxThreadCalls)

SpecThreads == ThreadsInit /\ [][NextThreads]_vars

\* Trait updates with proposals below, inside and above [0, 1], for traits that
\* exist and one that does not
MaxTraitStores == 2

NextTrait ==
    \/ heart_init("ok")
    \/ \E trait_name \in {"caution", "helpfulness", "patience"},
          new_value \in {0 - 100, 50, 100, 300}, reason \in {"", "feedback"} :
           update_personality_trait(trait_name, new_value, reason, "ok", MaxTraitStores)

TraitInit == HeartIdle /\ disk = Absent

SpecTrait == TraitInit /\ [][NextTrait]_vars

\* Storing entries of several categories, importances and tags, and retrieving
MaxRetrieveStores == 2

DefaultLimit == 10

StoreInputs ==
    {[category |-> "conversation", importance |-> 50, tags |-> <<>>],
     [category |-> "conversation", importance |-> 150, tags |-> <<"work">>],
     [category |-> "learning", importance |-> 0 - 50, tags |-> <<"work", "home">>],
     [category |-> "learning", importance |-> 50, tags |-> <<"home">>]}

RetrieveInit == HeartIdle /\ disk \in {Absent, SeedDoc}

NextRetrieve ==
    \/ heart_init("ok")
    \/ \E i \in StoreInputs :
           store_memory(i.category, "hello", i.importance, i.tags, "ok", MaxRetrieveStores)
    \/ \E category \in {"", "conversation", "learning"},
          tags \in {<<>>, <<"work">>, <<"home", "play">>},
          limit \in {0, 1, 2, DefaultLimit} :
           retrieve_memories(category, tags, limit)
    \/ Pass(NumHeartInstants)

SpecRetrieve == RetrieveInit /\ [][NextRetrieve]_vars

----------------------------------------------------------------------------
(* WorkingMemory: the interaction buffer and the caches *)

\* deque(maxlen=100)
MaxLen == 100

RetentionSeconds == 3600

\* The clock of the cache counts half seconds
TicksPerSecond == 2

\* The instants at which the cache is called: 0 s, 1 s, 1.5 s, 3601 s, 3601.5 s
CacheInstants == <<0, 2, 3, 7202, 7203>>

\* WorkingMemory(max_entries=1000) in main.py
MainMaxEntries == 1000

\* The object after __init__. reasoning_keys is the order of the keys of the
\* dictionary reasoning_cache, which is the order of their insertion
WorkingMemory(max_entries) ==
    [constructed |-> "yes", max_entries |-> max_entries,
     retention_seconds |-> RetentionSeconds,
     recent_interactions |-> <<>>, sensor_cache |-> <<>>, reasoning_cache |-> <<>>,
     reasoning_keys |-> <<>>,
     context_state |-> <<>>, cache_hits |-> 0, cache_misses |-> 0]

WmCall(op) == [op |-> op, interactions |-> wm_call.interactions, lookups |-> wm_call.lookups]

wm_init(max_entries) ==
    /\ wm = NoCache
    /\ wm' = WorkingMemory(max_entries)
    /\ wm_call' = WmCall("__init__")
    /\ UNCHANGED <<wm_now, life_vars, now, store_vars>>

\* Faulty variant of appended: a full buffer keeps its oldest entries
appended_keeping(buffer, x) == IF Len(buffer) = MaxLen THEN buffer ELSE Append(buffer, x)

\* deque.append on a deque with maxlen: a full deque drops its leftmost item
appended(buffer, x) ==
    IF Len(buffer) = MaxLen THEN Append(Tail(buffer), x) ELSE Append(buffer, x)

\* Faulty variant of expired: an entry expires once its age reaches its ttl
expired_at_ttl(cached, t) == t - cached.timestamp >= cached.ttl * TicksPerSecond

\* age > cached["ttl"]
expired(cached, t) == t - cached.timestamp > cached.ttl * TicksPerSecond

without(d, keys) == [k \in DOMAIN d \ keys |-> d[k]]

\* Faulty variant of purged: a reading as old as the retention window is removed
purged_at_cutoff(w, t) ==
    LET cutoff_time == t - w.retention_seconds * TicksPerSecond
        expired_sensors == {name \in DOMAIN w.sensor_cache :
                               w.sensor_cache[name].timestamp <= cutoff_time}
        expired_keys == {key \in DOMAIN w.reasoning_cache :
                            expired(w.reasoning_cache[key], t)}
    IN  [w EXCEPT !.sensor_cache = without(@, expired_sensors),
                  !.reasoning_cache = without(@, expired_keys),
                  !.reasoning_keys = comprehension(@, DOMAIN w.reasoning_cache \ expired_keys)]

\* _purge_old_data
purged(w, t) ==
    LET cutoff_time == t - w.retention_seconds * TicksPerSecond
        expired_sensors == {name \in DOMAIN w.sensor_cache :
                               w.sensor_cache[name].timestamp < cutoff_time}
        expired_keys == {key \in DOMAIN w.reasoning_cache :
                            expired(w.reasoning_cache[key], t)}
    IN  [w EXCEPT !.sensor_cache = without(@, expired_sensors),
                  !.reasoning_cache = without(@, expired_keys),
                  !.reasoning_keys = comprehension(@, DOMAIN w.reasoning_cache \ expired_keys)]

\* store_interaction: the interaction is the number of the call
store_interaction(cap) ==
    /\ wm.constructed = "yes"
    /\ wm_call.interactions < cap
    /\ wm' = purged([wm EXCEPT !.recent_interactions = appended(@, wm_call.interactions + 1)],
                    wm_now)
    /\ wm_call' = [op |-> "store_interaction", interactions |-> wm_call.interactions + 1,
                   lookups |-> wm_call.lookups,
                   expired_sensors |-> DOMAIN wm.sensor_cache \ DOMAIN wm'.sensor_cache,
                   expired_keys |-> DOMAIN wm.reasoning_cache \ DOMAIN wm'.reasoning_cache]
    /\ UNCHANGED <<wm_now, life_vars, now, store_vars>>

\* store_sensor_data with a reading taken now
store_sensor_data(sensor_name) ==
    /\ wm.constructed = "yes"
    /\ wm' = [wm EXCEPT !.sensor_cache =
                 [n \in DOMAIN wm.sensor_cache \cup {sensor_name} |->
                     IF n = sensor_name THEN [timestamp |-> wm_now]
                     ELSE wm.sensor_cache[n]]]
    /\ wm_call' = WmCall("store_sensor_data")
    /\ UNCHANGED <<wm_now, life_vars, now, store_vars>>

\* list(self.recent_interactions)[-limit:]
last_items(seq, limit) ==
    IF limit = 0 THEN seq
    ELSE IF limit > 0 THEN SubSeq(seq, Max(1, Len(seq) - limit + 1), Len(seq))
    ELSE SubSeq(seq, Min(Len(seq), 0 - limit) + 1, Len(seq))

get_recent_interactions(limit) ==
    /\ wm.constructed = "yes"
    /\ wm_call' = [op |-> "get_recent_interactions", interactions |-> wm_call.interactions,
                   lookups |-> wm_call.lookups, limit |-> limit,
                   ret |-> last_items(wm.recent_interactions, limit)]
    /\ UNCHANGED <<wm, wm_now, life_vars, now, store_vars>>

cache_reasoning_result(key, result, ttl_seconds) ==
    /\ wm.constructed = "yes"
    /\ wm' = [wm EXCEPT !.reasoning_cache =
                 [k \in DOMAIN wm.reasoning_cache \cup {key} |->
                     IF k = key
                     THEN [result |-> result, timestamp |-> wm_now, ttl |-> ttl_seconds]
                     ELSE wm.reasoning_cache[k]],
                          !.reasoning_keys =
                 IF key \in DOMAIN wm.reasoning_cache THEN @ ELSE Append(@, key)]
    /\ wm_call' = WmCall("cache_reasoning_result")
    /\ UNCHANGED <<wm_now, life_vars, now, store_vars>>

\* get_cached_reasoning: a miss returns None, written "None"
get_cached_reasoning(key, cap) ==
    /\ wm.constructed = "yes"
    /\ wm_call.lookups < cap
    /\ IF key \notin DOMAIN wm.reasoning_cache
       THEN /\ wm' = [wm EXCEPT !.cache_misses = @ + 1]
            /\ wm_call' = [op |-> "get_cached_reasoning",
                           interactions |-> wm_call.interactions,
                           lookups |-> wm_call.lookups + 1, key |-> key, ret |-> "None"]
       ELSE IF expired(wm.reasoning_cache[key], wm_now)
       THEN /\ wm' = [wm EXCEPT !.reasoning_cache = without(@, {key}),
                                !.reasoning_keys =
                                    comprehension(@, DOMAIN wm.reasoning_cache \ {key}),
                                !.cache_misses = @ + 1]
            /\ wm_call' = [op |-> "get_cached_reasoning",
                           interactions |-> wm_call.interactions,
                           lookups |-> wm_call.lookups + 1, key |-> key, ret |-> "None"]
       ELSE /\ wm' = [wm EXCEPT !.cache_hits = @ + 1]
            /\ wm_call' = [op |-> "get_cached_reasoning",
                           interactions |-> wm_call.interactions,
                           lookups |-> wm_call.lookups + 1, key |-> key,
                           ret |-> wm.reasoning_cache[key].result]
    /\ UNCHANGED <<wm_now, life_vars, now, store_vars>>

\* set_context: self.context_state[key] = {"value": value, "updated_at": now}
set_context(key, value) ==
    /\ wm.constructed = "yes"
    /\ wm' = [wm EXCEPT !.context_state =
                 [k \in DOMAIN wm.context_state \cup {key} |->
                     IF k = key THEN [value |-> value, updated_at |-> wm_now]
                     ELSE wm.context_state[k]]]
    /\ wm_call' = WmCall("set_context")
    /\ UNCHANGED <<wm_now, life_vars, now, store_vars>>

\* Faulty variant of sorted_cache: the newest entries come first
RECURSIVE sorted_cache_reversed(_, _)
sorted_cache_reversed(cache, keys) ==
    IF keys = <<>> THEN <<>>
    ELSE LET done == sorted_cache_reversed(cache, SubSeq(keys, 1, Len(keys) - 1))
             x == keys[Len(keys)]
             n == Cardinality({i \in 1..Len(done) :
                                  cache[done[i]].timestamp >= cache[x].timestamp})
         IN  SubSeq(done, 1, n) \o <<x>> \o SubSeq(done, n + 1, Len(done))

\* sorted(self.reasoning_cache.items(), key=lambda x: x[1]["timestamp"]): the
\* keys in ascending order of timestamp, keys of equal timestamp in the order
\* they have in the dictionary
RECURSIVE sorted_cache(_, _)
sorted_cache(cache, keys) ==
    IF keys = <<>> THEN <<>>
    ELSE LET done == sorted_cache(cache, SubSeq(keys, 1, Len(keys) - 1))
             x == keys[Len(keys)]
             n == Cardinality({i \in 1..Len(done) :
                                  cache[done[i]].timestamp <= cache[x].timestamp})
         IN  SubSeq(done, 1, n) \o <<x>> \o SubSeq(done, n + 1, Len(done))

\* optimize_memory: len(cache) > max_entries / 2 is a comparison of floats,
\* int(max_entries / 4) truncates
optimize_memory ==
    /\ wm.constructed = "yes"
    /\ LET cache == wm.reasoning_cache
           sorted == sorted_cache(cache, wm.reasoning_keys)
           keys_to_remove == Len(sorted) - (wm.max_entries \div 4)
           removed == {sorted[i] : i \in DOMAIN slice(sorted, keys_to_remove)}
       IN  IF 2 * Len(wm.reasoning_keys) > wm.max_entries
           THEN /\ wm' = [wm EXCEPT !.reasoning_cache = without(@, removed),
                                    !.reasoning_keys =
                                        comprehension(@, DOMAIN cache \ removed)]
                /\ wm_call' = [op |-> "optimize_memory",
                               interactions |-> wm_call.interactions,
                               lookups |-> wm_call.lookups, evicted |-> removed]
           ELSE /\ wm' = wm
                /\ wm_call' = [op |-> "optimize_memory",
                               interactions |-> wm_call.interactions,
                               lookups |-> wm_call.lookups, evicted |-> {}]
    /\ UNCHANGED <<wm_now, life_vars, now, store_vars>>

\* clear(): the four containers are emptied, the counters stay
wm_clear ==
    /\ wm.constructed = "yes"
    /\ wm' = [wm EXCEPT !.recent_interactions = <<>>, !.sensor_cache = <<>>,
                        !.reasoning_cache = <<>>, !.reasoning_keys = <<>>,
                        !.context_state = <<>>]
    /\ wm_call' = WmCall("clear")
    /\ UNCHANGED <<wm_now, life_vars, now, store_vars>>

\* Time passes between two calls of the cache
CacheTick(n) ==
    /\ \E i \in 1..Min(n, Len(CacheInstants)) :
          CacheInstants[i] > wm_now /\ wm_now' = CacheInstants[i]
    /\ UNCHANGED <<wm, wm_call, life_vars, now, store_vars>>

\* The interaction buffer past its capacity, with the other operations between
MaxInteractions == 150

MaxBufferLookups == 1

NumBufferInstants == 3

CacheInit == LifecycleInit /\ StoreIdle /\ CacheIdle

NextBuffer ==
    \/ wm_init(MainMaxEntries)
    \/ store_interaction(MaxInteractions)
    \/ \E limit \in {0, 10} : get_recent_interactions(limit)
    \/ cache_reasoning_result("k", "v", 1)
    \/ get_cached_reasoning("k", MaxBufferLookups)
    \/ CacheTick(NumBufferInstants)

SpecBuffer == CacheInit /\ [][NextBuffer]_vars

\* The reasoning cache with its clock, purges and clear
MaxLookups == 3

MaxCacheInteractions == 1

NumCacheInstants == 5

NextCache ==
    \/ wm_init(MainMaxEntries)
    \/ \E key \in {"k", "j"}, ttl_seconds \in {1, 3601} : cache_reasoning_result(key, "v", ttl_seconds)
    \/ \E key \in {"k", "j"} : get_cached_reasoning(key, MaxLookups)
    \/ store_interaction(MaxCacheInteractions)
    \/ store_sensor_data("accelerometer")
    \/ wm_clear
    \/ CacheTick(NumCacheInstants)

SpecCache == CacheInit /\ [][NextCache]_vars

\* Purges after readings, cached results and context of several ages
MaxPurgeInteractions == 2

NumPurgeInstants == 5

NextPurge ==
    \/ wm_init(MainMaxEntries)
    \/ \E key \in {"k", "j"}, ttl_seconds \in {1, 3601} : cache_reasoning_result(key, "v", ttl_seconds)
    \/ \E sensor_name \in {"accelerometer", "light"} : store_sensor_data(sensor_name)
    \/ set_context("topic", "weather")
    \/ store_interaction(MaxPurgeInteractions)
    \/ CacheTick(NumPurgeInstants)

SpecPurge == CacheInit /\ [][NextPurge]_vars

\* A small cache that fills past half of max_entries, with entries cached again
\* later than keys inserted after them
MaxOptimizeLookups == 1

MaxOptimizeInteractions == 1

NumOptimizeInstants == 2

NextOptimize ==
    \/ \E max_entries \in {3, 4} : wm_init(max_entries)
    \/ \E key \in {"a", "b", "c"} : cache_reasoning_result(key, "v", 300)
    \/ get_cached_reasoning("a", MaxOptimizeLookups)
    \/ store_interaction(MaxOptimizeInteractions)
    \/ store_sensor_data("accelerometer")
    \/ set_context("topic", "weather")
    \/ optimize_memory
    \/ CacheTick(NumOptimizeInstants)

SpecOptimize == CacheInit /\ [][NextOptimize]_vars

----------------------------------------------------------------------------
(* Interaction buffer and reasoning cache *)

\* C18: after n store_interaction calls, with reads, cache writes, lookups and
\* time passing between them, the buffer holds the min(n, 100) interactions
\* stored last, oldest first.
C18_BufferFifo ==
    wm.constructed = "yes" =>
        LET n == wm_call.interactions
            held == Min(n, MaxLen)
        IN  wm.recent_interactions = [i \in 1..held |-> n - held + i]

\* 150 interactions were stored, the buffer holds 51..150, and the last call
\* read from it
C18_Witness ==
    /\ wm.constructed = "yes"
    /\ wm_call.interactions = 150
    /\ wm_call.op = "get_recent_interactions"
    /\ Len(wm.recent_interactions) = MaxLen
    /\ wm.recent_interactions[1] = 51
    /\ wm.recent_interactions[MaxLen] = 150

\* C19: a lookup of a key that is present with now - timestamp <= ttl returns
\* the result, keeps the entry and adds one to the hits only; a lookup of a key
\* that is absent or older than its ttl returns None, adds one to the misses
\* only and leaves the key out of the cache.
C19_LazyTtl ==
    [][(wm_call'.op = "get_cached_reasoning" /\ wm_call'.lookups = wm_call.lookups + 1) =>
          LET key == wm_call'.key
              fresh == /\ key \in DOMAIN wm.reasoning_cache
                       /\ wm_now - wm.reasoning_cache[key].timestamp
                              <= wm.reasoning_cache[key].ttl * TicksPerSecond
          IN  IF fresh
              THEN /\ wm_call'.ret = wm.reasoning_cache[key].result
                   /\ wm'.reasoning_cache = wm.reasoning_cache
                   /\ wm'.cache_hits = wm.cache_hits + 1
                   /\ wm'.cache_misses = wm.cache_misses
              ELSE /\ wm_call'.ret = "None"
                   /\ key \notin DOMAIN wm'.reasoning_cache
                   /\ \A k \in DOMAIN wm.reasoning_cache \ {key} :
                         /\ k \in DOMAIN wm'.reasoning_cache
                         /\ wm'.reasoning_cache[k] = wm.reasoning_cache[k]
                   /\ wm'.cache_misses = wm.cache_misses + 1
                   /\ wm'.cache_hits = wm.cache_hits]_vars

\* A lookup at an age of exactly the ttl of one second was a hit, after an
\* earlier miss
C19_Witness ==
    /\ wm_call.op = "get_cached_reasoning"
    /\ wm_call.key = "k"
    /\ wm_call.ret = "v"
    /\ "k" \in DOMAIN wm.reasoning_cache
    /\ wm.reasoning_cache["k"].ttl = 1
    /\ wm_now - wm.reasoning_cache["k"].timestamp = TicksPerSecond
    /\ wm.cache_hits = 1
    /\ wm.cache_misses = 1

----------------------------------------------------------------------------
(* Persistence of the Heart *)

MutatingOps == {"store_memory", "update_personality_trait", "update_emotional_profile",
                "compress_memory"}

\* C11: when save() fails inside store_memory, update_personality_trait with a
\* reason, update_emotional_profile or compress_memory, the object in memory
\* (entries, counter, traits, profiles) is what it was before the call.
C11_FailedWriteLeavesMemory ==
    [][(heart_call'.op \in MutatingOps /\ heart_call'.raised) => heart' = heart]_vars

\* What a new instance holds after load() of the document that save() writes
\* for h
reloaded(h) == load(EmptyHeart, Json(document(h)))

\* C12: in every reachable state of a constructed Heart, save() followed by
\* load() into a new instance gives the same memory entries, traits, emotional
\* profile, name profile and persona profile.
C12_RoundTrip ==
    heart.constructed = "yes" =>
        /\ ~reloaded(heart).raised
        /\ reloaded(heart).heart.memory_entries = heart.memory_entries
        /\ reloaded(heart).heart.personality_traits = heart.personality_traits
        /\ reloaded(heart).heart.emotional_profile = heart.emotional_profile
        /\ reloaded(heart).heart.name_profile = heart.name_profile
        /\ reloaded(heart).heart.persona_profile = heart.persona_profile

\* C13: after every completed store_memory, update_personality_trait (with or
\* without a reason), update_emotional_profile and compress_memory, the file
\* holds the document of the object in memory.
C13_WriteThrough ==
    (heart.constructed = "yes" /\ heart_call.op \in MutatingOps /\ ~heart_call.raised) =>
        disk = Json(document(heart))

\* C14: every store_memory puts its entry under an id greater than every id the
\* store already holds, loaded ids included, returns that id when it returns,
\* and leaves every earlier entry as it was.
C14_IdsIncrease ==
    [][(heart_call'.op = "store_memory" /\ heart_call'.stores > heart_call.stores) =>
          /\ \A i \in DOMAIN heart.memory_entries :
                /\ heart.memory_counter > i
                /\ i \in DOMAIN heart'.memory_entries
                /\ heart'.memory_entries[i] = heart.memory_entries[i]
          /\ DOMAIN heart'.memory_entries = DOMAIN heart.memory_entries \cup {heart.memory_counter}
          /\ ~heart_call'.raised => heart_call'.ret = heart.memory_counter]_vars

\* A store into a Heart loaded from the document with ids 5 and 9 returned 10
C14_Witness ==
    /\ heart_call.op = "store_memory"
    /\ ~heart_call.raised
    /\ heart_call.ret = 10
    /\ {5, 9, 10} = DOMAIN heart.memory_entries

\* C15: over store_memory, update_personality_trait, update_emotional_profile,
\* compress_memory and save, every entry of the store stays under its id with
\* the same fields, and the number of entries never decreases.
C15_EntriesKept ==
    [][(heart.constructed = "yes" /\ heart_call'.op # "__init__") =>
          /\ \A i \in DOMAIN heart.memory_entries :
                /\ i \in DOMAIN heart'.memory_entries
                /\ heart'.memory_entries[i] = heart.memory_entries[i]
          /\ Cardinality(DOMAIN heart'.memory_entries) >= Cardinality(DOMAIN heart.memory_entries)]_vars

\* compress_memory added a summary of the eleven old entries, which are all
\* still there
C15_Witness ==
    /\ heart_call.op = "compress_memory"
    /\ DOMAIN heart.memory_entries = 0..(CompressThreshold + 1)
    /\ heart.memory_entries[CompressThreshold + 1].category = "conversation_summary"
    /\ heart.memory_entries[CompressThreshold + 1].content = "Summary of 11 conversation entries"
    /\ \A i \in 0..CompressThreshold : heart.memory_entries[i].category = "conversation"

\* A document that cannot be parsed, or one with a section that lacks a key
\* load() requires
Malformed(d) ==
    \/ d = Unparseable
    \/ /\ d.file = "json"
       /\ \/ \E k \in DOMAIN d.data.memory_entries :
                ~(RequiredEntryFields \subseteq DOMAIN d.data.memory_entries[k])
          \/ \E n \in DOMAIN d.data.personality_traits :
                ~(RequiredTraitFields \subseteq DOMAIN d.data.personality_traits[n])
          \/ /\ d.data.emotional_profile # Null
             /\ ~(RequiredEmotionFields \subseteq DOMAIN d.data.emotional_profile)

\* C17: constructing a Heart on a malformed document, or load() of one, raises
\* and leaves no usable object with defaults or a partly loaded state.
C17_MalformedIsFatal ==
    (heart_call.op \in {"__init__", "load"} /\ Malformed(disk)) =>
        heart_call.raised /\ (heart_call.op = "__init__" => heart.constructed = "failed")

----------------------------------------------------------------------------
(* Importance and retrieval *)

\* C16: the entry made by store_memory(importance = x) has importance
\* max(0, min(1, x)), whether x is below 0, in [0, 1] or above 1, and every
\* entry of the store has its importance in [0, 1].
C16_ImportanceClamped ==
    /\ heart_call.op = "store_memory" =>
          heart.memory_entries[heart.memory_counter - 1].importance_score =
              Max(0, Min(One, heart_call.importance))
    /\ \A i \in DOMAIN heart.memory_entries :
          /\ heart.memory_entries[i].importance_score >= 0
          /\ heart.memory_entries[i].importance_score <= One

\* The store holds an entry made with importance 1.5 and one made with -0.5
C16_Witness ==
    /\ heart_call.op = "store_memory"
    /\ heart_call.importance = 0 - 50
    /\ heart.memory_entries[heart.memory_counter - 1].importance_score = 0
    /\ \E i \in DOMAIN heart.memory_entries :
          heart.memory_entries[i].tags = <<"work">> /\ heart.memory_entries[i].importance_score = One

\* The ids of the entries that pass the filters of the last retrieve_memories
Matching ==
    {i \in DOMAIN heart.memory_entries :
        /\ heart_call.category # "" => heart.memory_entries[i].category = heart_call.category
        /\ heart_call.tags # <<>> =>
              \E k \in 1..Len(heart_call.tags), l \in 1..Len(heart.memory_entries[i].tags) :
                  heart_call.tags[k] = heart.memory_entries[i].tags[l]}

\* a comes before b: more important, or as important and more recent
Before(a, b) ==
    \/ a.importance_score > b.importance_score
    \/ a.importance_score = b.importance_score /\ a.timestamp > b.timestamp

\* C20: retrieve_memories(category, tags, limit) returns the first limit of the
\* entries that match the category filter and the tag filter (each when given),
\* ordered by importance descending and, at equal importance, by timestamp
\* descending.
C20_RetrieveOrder ==
    heart_call.op = "retrieve_memories" =>
        LET ret == heart_call.ret
            es == heart.memory_entries
        IN  /\ Len(ret) = Min(heart_call.limit, Cardinality(Matching))
            /\ \A i \in 1..Len(ret) : ret[i] \in Matching
            /\ \A i, j \in 1..Len(ret) : i < j =>
                  ret[i] # ret[j] /\ ~Before(es[ret[j]], es[ret[i]])
            /\ \A m \in Matching :
                  (\A i \in 1..Len(ret) : ret[i] # m) =>
                      \A i \in 1..Len(ret) : ~Before(es[m], es[ret[i]])

\* A retrieval by category, cut to two of four entries of the same importance:
\* the two newest are returned, the newer first
C20_Witness ==
    /\ heart_call.op = "retrieve_memories"
    /\ heart_call.category = "conversation"
    /\ heart_call.limit = 2
    /\ Cardinality(Matching) = 4
    /\ Len(heart_call.ret) = 2
    /\ heart_call.ret[1] > heart_call.ret[2]
    /\ heart.memory_entries[heart_call.ret[1]].importance_score =
           heart.memory_entries[heart_call.ret[2]].importance_score
    /\ heart.memory_entries[heart_call.ret[1]].timestamp >
           heart.memory_entries[heart_call.ret[2]].timestamp

----------------------------------------------------------------------------
(* Personality traits *)

----------------------------------------------------------------------------
(* Two threads on one Heart *)

\* C22: when two threads call store_memory on one Heart at the same time, the
\* calls behave as if one ran after the other: once every call has returned,
\* the entries have distinct ids and are all in memory, the counter is past
\* them, and the file holds the complete document of the store.
C22_AsIfSerialized ==
    (heart_call.op = "threads" /\ \A t \in Threads : heart_call.threads[t].pc = "idle") =>
        LET made == heart_call.threads["t1"].calls + heart_call.threads["t2"].calls
        IN  /\ Cardinality(DOMAIN heart.memory_entries) = made
            /\ heart.memory_counter = made
            /\ disk = Json(document(heart))

----------------------------------------------------------------------------
(* Phone sleep and wake *)

C24_WakeStage ==
    [][last'.op = "on_phone_active" =>
          /\ current_stage = DORMANT => current_stage' = GROWTH
          /\ current_stage # DORMANT => current_stage' = current_stage
          /\ milestones_reached' = milestones_reached
          /\ interaction_count' = interaction_count]_vars

\* the phone woke from DORMANT: the stage is GROWTH although the growth
\* milestone was never recorded
C24_Witness ==
    /\ last.op = "on_phone_active"
    /\ last.stage = DORMANT
    /\ current_stage = GROWTH
    /\ milestones_reached["growth_stage_reached"] = None
    /\ interaction_count > 0

\* the phone woke in END_OF_LIFE and the stage stayed END_OF_LIFE
C24_WitnessTerminal ==
    /\ last.op = "on_phone_active"
    /\ last.stage = END_OF_LIFE
    /\ current_stage = END_OF_LIFE

----------------------------------------------------------------------------
(* Purge and optimisation of the working memory *)

\* C25: the purge runs inside every store_interaction: right after the call no
\* sensor reading is older than the retention window and no cached result is
\* older than its ttl, every reading and cached result that is not expired is
\* still there unchanged, the buffer holds what it held plus the new
\* interaction, and the context store and the counters are as they were.
C25_PurgeInline ==
    [][(wm_call'.op = "store_interaction" /\ wm_call'.interactions = wm_call.interactions + 1) =>
          LET cutoff_time == wm_now - RetentionSeconds * TicksPerSecond
              old_sensors == wm.sensor_cache
              new_sensors == wm'.sensor_cache
              old_cache == wm.reasoning_cache
              new_cache == wm'.reasoning_cache
              stale(c) == wm_now - c.timestamp > c.ttl * TicksPerSecond
              old_buffer == wm.recent_interactions
              new_buffer == wm'.recent_interactions
          IN  /\ DOMAIN new_sensors \subseteq DOMAIN old_sensors
              /\ \A n \in DOMAIN new_sensors : new_sensors[n].timestamp >= cutoff_time
              /\ \A n \in DOMAIN old_sensors :
                    old_sensors[n].timestamp >= cutoff_time =>
                        n \in DOMAIN new_sensors /\ new_sensors[n] = old_sensors[n]
              /\ DOMAIN new_cache \subseteq DOMAIN old_cache
              /\ \A k \in DOMAIN new_cache : ~stale(new_cache[k])
              /\ \A k \in DOMAIN old_cache :
                    ~stale(old_cache[k]) =>
                        k \in DOMAIN new_cache /\ new_cache[k] = old_cache[k]
              /\ Len(old_buffer) < MaxLen =>
                    new_buffer = Append(old_buffer, wm_call'.interactions)
              /\ wm'.context_state = wm.context_state
              /\ wm'.cache_hits = wm.cache_hits
              /\ wm'.cache_misses = wm.cache_misses]_vars

\* An interaction stored at 3601 s purged the result cached at 0 s with a ttl of
\* one second and the reading taken at 0 s, and kept the result whose age is
\* exactly its ttl, the reading whose age is exactly the retention window, and
\* the context
C25_Witness ==
    /\ wm_call.op = "store_interaction"
    /\ wm_now = 7202
    /\ wm_call.expired_keys = {"k"}
    /\ wm_call.expired_sensors = {"light"}
    /\ "j" \in DOMAIN wm.reasoning_cache
    /\ wm.reasoning_cache["j"].timestamp = 0
    /\ wm.reasoning_cache["j"].ttl = 3601
    /\ "accelerometer" \in DOMAIN wm.sensor_cache
    /\ wm.sensor_cache["accelerometer"].timestamp = 2
    /\ "topic" \in DOMAIN wm.context_state
    /\ wm.context_state["topic"].updated_at = 0

\* C26: optimize_memory on a cache of more than max_entries / 2 entries leaves
\* exactly floor(max_entries / 4) of them, unchanged, and none of the evicted
\* entries is more recent than one that is kept; on a cache of max_entries / 2
\* entries or fewer it changes nothing; the buffer, the sensor map, the
\* context store and the hit and miss counters are the same after the call.
C26_Hysteresis ==
    [][(wm_call'.op = "optimize_memory" /\ wm_now' = wm_now) =>
          LET old_cache == wm.reasoning_cache
              new_cache == wm'.reasoning_cache
              held == Cardinality(DOMAIN old_cache)
          IN  /\ IF 2 * held > wm.max_entries
                 THEN /\ Cardinality(DOMAIN new_cache) = wm.max_entries \div 4
                      /\ DOMAIN new_cache \subseteq DOMAIN old_cache
                      /\ \A k \in DOMAIN new_cache : new_cache[k] = old_cache[k]
                      /\ \A k \in DOMAIN new_cache, r \in DOMAIN old_cache \ DOMAIN new_cache :
                            old_cache[k].timestamp >= old_cache[r].timestamp
                 ELSE new_cache = old_cache
              /\ wm'.max_entries = wm.max_entries
              /\ wm'.recent_interactions = wm.recent_interactions
              /\ wm'.sensor_cache = wm.sensor_cache
              /\ wm'.context_state = wm.context_state
              /\ wm'.cache_hits = wm.cache_hits
              /\ wm'.cache_misses = wm.cache_misses]_vars

\* With max_entries = 4, a cache of three entries was cut to one: "a" was
\* inserted first and cached again last, and it is the one that is kept
C26_Witness ==
    /\ wm_call.op = "optimize_memory"
    /\ wm.max_entries = 4
    /\ wm_call.evicted = {"b", "c"}
    /\ DOMAIN wm.reasoning_cache = {"a"}
    /\ wm.reasoning_cache["a"].timestamp = 2
    /\ wm.reasoning_keys = <<"a">>
    /\ wm.recent_interactions # <<>>
    /\ wm.sensor_cache # <<>>
    /\ wm.context_state # <<>>
    /\ wm.cache_hits = 1

\* With max_entries = 4, a cache of exactly two entries was left as it was
C26_WitnessAtHalf ==
    /\ wm_call.op = "optimize_memory"
    /\ wm.max_entries = 4
    /\ wm_call.evicted = {}
    /\ Cardinality(DOMAIN wm.reasoning_cache) = 2

\* With max_entries = 3, a cache of two entries, more than 1.5, was emptied
C26_WitnessTruncated ==
    /\ wm_call.op = "optimize_memory"
    /\ wm.max_entries = 3
    /\ Cardinality(wm_call.evicted) = 2
    /\ wm.reasoning_cache = <<>>

----------------------------------------------------------------------------
(* Compression of old memories *)

\* C27: a compress_memory call that returns keeps every entry of the store
\* under its id with the same fields, and for each of conversation, learning
\* and experience it adds exactly one entry of category '<category>_summary'
\* whose content states the count if more than 10 entries of the category are
\* older than 7 days, and no entry if 10 or fewer are; nothing else is added.
\* (A call in which save() raises is the case of C11.)
C27_CompressThreshold ==
    [][(/\ heart_call'.op = "compress_memory"
        /\ (heart' # heart \/ heart_call' # heart_call)
        /\ ~heart_call'.raised) =>
          LET es == heart.memory_entries
              new == heart'.memory_entries
              added == DOMAIN new \ DOMAIN es
              old_count(c) == Cardinality({i \in DOMAIN es :
                                              /\ es[i].category = c
                                              /\ es[i].timestamp < now - SevenDays})
              summaries(c) == {i \in added : new[i].category = c \o "_summary"}
              Categories == {"conversation", "learning", "experience"}
          IN  /\ \A i \in DOMAIN es : i \in DOMAIN new /\ new[i] = es[i]
              /\ \A c \in Categories :
                    /\ old_count(c) > 10 => Cardinality(summaries(c)) = 1
                    /\ old_count(c) <= 10 => summaries(c) = {}
                    /\ \A i \in summaries(c) :
                          new[i].content = "Summary of " \o ToString(old_count(c))
                                               \o " " \o c \o " entries"
              /\ \A i \in added : \E c \in Categories : i \in summaries(c)]_vars

\* One call summarised the eleven old conversation entries and the eleven old
\* experience entries, and added nothing for learning, which has ten old
\* entries and one that is exactly seven days old
C27_Witness ==
    /\ heart_call.op = "compress_memory"
    /\ ~heart_call.raised
    /\ now = SevenDays
    /\ DOMAIN heart.memory_entries = 0..34
    /\ heart.memory_entries[21].category = "learning"
    /\ heart.memory_entries[21].timestamp = 0
    /\ heart.memory_entries[33].content = "Summary of 11 conversation entries"
    /\ heart.memory_entries[34].category = "experience_summary"
    /\ \A i \in 0..34 : heart.memory_entries[i].category # "learning_summary"

----------------------------------------------------------------------------
(* Full AI Mode and its permission over the whole lifecycle *)

\* C28: in every state reachable by the operations of the lifecycle manager,
\* Full AI Mode enabled implies that the FULL_AI_MODE permission is granted now
\* and has explicit consent: the mode is switched on only under that grant, and
\* revoking the grant switches it off.
C28_ModeUnderGrant ==
    full_ai_mode_enabled =>
        /\ permissions[FULL_AI_MODE].granted
        /\ permissions[FULL_AI_MODE].explicit_consent

\* The mode is on again after FULL_AI_MODE was revoked and granted a second
\* time, with the phone asleep
C28_Witness ==
    /\ full_ai_mode_enabled
    /\ last.op = "enable_full_ai_mode"
    /\ last.ret = "True"
    /\ ~last.mode
    /\ permissions[FULL_AI_MODE].granted
    /\ permissions[FULL_AI_MODE].revoked_at # None
    /\ milestones_reached["full_ai_mode_enabled"] # None
    /\ current_stage = DORMANT

----------------------------------------------------------------------------
(* Stages entered by interactions, and their milestones *)

\* C29: in every reachable state, stage EARLY_LEARNING implies that
\* 'early_learning_started' is in the ledger and stage MATURE implies that
\* 'maturity_reached' is; the timestamp is the time of the first step that
\* entered the stage: a step that enters the stage writes the current time if
\* the milestone is absent and leaves the recorded time otherwise.
C29_StageLedger ==
    /\ [](\A s \in {EARLY_LEARNING, MATURE} :
             current_stage = s => milestones_reached[StageMilestone(s)] # None)
    /\ [][\A s \in {EARLY_LEARNING, MATURE} :
             (current_stage # s /\ current_stage' = s) =>
                 milestones_reached'[StageMilestone(s)] =
                     IF milestones_reached[StageMilestone(s)] = None
                     THEN now
                     ELSE milestones_reached[StageMilestone(s)]]_vars

\* EARLY_LEARNING was entered a second time, after a second on_birth, later
\* than the time recorded for early_learning_started
C29_Witness ==
    /\ current_stage = EARLY_LEARNING
    /\ last.op = "on_interaction"
    /\ last.stage = INITIALIZATION
    /\ milestones_reached["early_learning_started"] # None
    /\ milestones_reached["early_learning_started"] < now

\* MATURE was entered from a GROWTH stage that was reached by a wake from
\* DORMANT, seven days after the birth
C29_WitnessMature ==
    /\ current_stage = MATURE
    /\ last.op = "on_interaction"
    /\ last.stage = GROWTH
    /\ milestones_reached["growth_stage_reached"] = None
    /\ milestones_reached["maturity_reached"] = now
    /\ now - birth_time = 604800

\* C30: one on_interaction call adds exactly one to the interaction counter and
\* moves the stage by at most one step, INITIALIZATION to EARLY_LEARNING,
\* EARLY_LEARNING to GROWTH or GROWTH to MATURE, also when the count or the
\* elapsed days already meet the conditions of the later steps; in BIRTH,
\* DORMANT, MATURE and END_OF_LIFE the call leaves the stage as it is.
C30_OneStep ==
    [][last'.op = "on_interaction" =>
          /\ interaction_count' = interaction_count + 1
          /\ \/ current_stage' = current_stage
             \/ current_stage = INITIALIZATION /\ current_stage' = EARLY_LEARNING
             \/ current_stage = EARLY_LEARNING /\ current_stage' = GROWTH
             \/ current_stage = GROWTH /\ current_stage' = MATURE
          /\ current_stage \in {BIRTH, DORMANT, MATURE, END_OF_LIFE} =>
                 current_stage' = current_stage]_vars

\* The sixth interaction, made in INITIALIZATION seven days after the birth,
\* moved the stage to EARLY_LEARNING only, although the elapsed days meet the
\* conditions of the steps to GROWTH and to MATURE
C30_Witness ==
    /\ last.op = "on_interaction"
    /\ last.stage = INITIALIZATION
    /\ current_stage = EARLY_LEARNING
    /\ interaction_count = 6
    /\ now - birth_time >= 604800
    /\ milestones_reached["growth_stage_reached"] = None

\* An interaction was made in DORMANT with seven days elapsed, and the stage is
\* still DORMANT
C30_WitnessDormant ==
    /\ last.op = "on_interaction"
    /\ last.stage = DORMANT
    /\ current_stage = DORMANT
    /\ interaction_count > 5
    /\ now - birth_time >= 604800

====
